--------------------------- MODULE Spec2Model ---------------------------
(***************************************************************************)
(* The function-boundary locator of the documentation assistant            *)
(* (src/src/codeParser.ts, class CodeParser).  A document is a sequence of *)
(* lines, a line a sequence of one-character strings; the signature        *)
(* patterns are the regular expressions of the source, run by a            *)
(* backtracking matcher with the semantics of RegExp.prototype.exec.       *)
(***************************************************************************)
EXTENDS Integers, Sequences, FiniteSets, TLC

(***************************************************************************)
(* Characters and character classes of the patterns.                       *)
(***************************************************************************)
Lower ==
    {"a","b","c","d","e","f","g","h","i","j","k","l","m",
     "n","o","p","q","r","s","t","u","v","w","x","y","z"}

Upper ==
    {"A","B","C","D","E","F","G","H","I","J","K","L","M",
     "N","O","P","Q","R","S","T","U","V","W","X","Y","Z"}

Digit ==
    {"0","1","2","3","4","5","6","7","8","9"}

\* \s
Space ==
    {" ", "\t", "\r", "\n"}

\* [A-Za-z0-9_]
Word ==
    Lower \cup Upper \cup Digit \cup {"_"}

\* [A-Za-z0-9_$]
WordDollar ==
    Word \cup {"$"}

\* [A-Za-z0-9_<>[\]]
TypeChar ==
    Word \cup {"<", ">", "[", "]"}

\* [A-Za-z0-9_,\s]
ThrowsChar ==
    Word \cup {","} \cup Space

(***************************************************************************)
(* The lines documents are made of.                                        *)
(***************************************************************************)
\* ``: an empty line
Blank ==
    << >>

\* `plain prose text`
Prose ==
    <<"p","l","a","i","n"," ","p","r","o","s","e"," ","t","e","x","t">>

\* `}`
CloseBrace ==
    <<"}">>

\* `  return a + b;`
Statement ==
    <<" "," ","r","e","t","u","r","n"," ","a"," ","+"," ","b",";">>

\* `function add(a, b) {`
JsFunction ==
    <<"f","u","n","c","t","i","o","n"," ","a","d","d","(","a",","," ","b",")"," ","{">>

\* `  if (a) {`
IfBlock ==
    <<" "," ","i","f"," ","(","a",")"," ","{">>

\* `def add(a, b):`
PyDef ==
    <<"d","e","f"," ","a","d","d","(","a",","," ","b",")",":">>

\* `    return a + b`
PyReturn ==
    <<" "," "," "," ","r","e","t","u","r","n"," ","a"," ","+"," ","b">>

\* `x = 1`
PyTop ==
    <<"x"," ","="," ","1">>

\* `    def inner(x):`
PyInnerDef ==
    <<" "," "," "," ","d","e","f"," ","i","n","n","e","r","(","x",")",":">>

\* `        return x`
PyInnerReturn ==
    <<" "," "," "," "," "," "," "," ","r","e","t","u","r","n"," ","x">>

\* `int add(int a, int b) {`
CFunction ==
    <<"i","n","t"," ","a","d","d","(","i","n","t"," ","a",","," ","i","n","t"," ","b",")"," ","{">>

\* `  else if (a) {`
CElseIf ==
    <<" "," ","e","l","s","e"," ","i","f"," ","(","a",")"," ","{">>

\* `foo(bar)`
GenCall ==
    <<"f","o","o","(","b","a","r",")">>

\* `fn add(a, b) {`
GenFunction ==
    <<"f","n"," ","a","d","d","(","a",","," ","b",")"," ","{">>

\* `/**`
DocOpen ==
    <<"/","*","*">>

\* ` * Adds two numbers.`
DocText ==
    <<" ","*"," ","A","d","d","s"," ","t","w","o"," ","n","u","m","b","e","r","s",".">>

\* `/** see also`
DocNestedOpen ==
    <<"/","*","*"," ","s","e","e"," ","a","l","s","o">>

\* ` */`
DocClose ==
    <<" ","*","/">>

\* `/** Adds two numbers. */`
DocOneLine ==
    <<"/","*","*"," ","A","d","d","s"," ","t","w","o"," ","n","u","m","b","e","r","s","."," ","*","/">>

\* `// adds two numbers`
LineComment ==
    <<"/","/"," ","a","d","d","s"," ","t","w","o"," ","n","u","m","b","e","r","s">>

\* `function add(a: number, b: number): number {`
TsFunction ==
    <<"f","u","n","c","t","i","o","n"," ","a","d","d","(","a",":"," ","n","u","m","b","e","r",","," ","b",":"," ","n","u","m","b","e","r",")",":"," ","n","u","m","b","e","r"," ","{">>

\* `function run(cb: () => void): void {`
TsCallback ==
    <<"f","u","n","c","t","i","o","n"," ","r","u","n","(","c","b",":"," ","(",")"," ","=",">"," ","v","o","i","d",")",":"," ","v","o","i","d"," ","{">>

\* `function one() { return 1; }`
JsOneLine ==
    <<"f","u","n","c","t","i","o","n"," ","o","n","e","(",")"," ","{"," ","r","e","t","u","r","n"," ","1",";"," ","}">>

\* `const run = (cb) => { if (cb) {`
ArrowIf ==
    <<"c","o","n","s","t"," ","r","u","n"," ","="," ","(","c","b",")"," ","=",">"," ","{"," ","i","f"," ","(","c","b",")"," ","{">>

\* `int add(int a, int b)`
CHeader ==
    <<"i","n","t"," ","a","d","d","(","i","n","t"," ","a",","," ","i","n","t"," ","b",")">>

\* `void run() throws E {`
CThrows ==
    <<"v","o","i","d"," ","r","u","n","(",")"," ","t","h","r","o","w","s"," ","E"," ","{">>

\* `{`
OpenBrace ==
    <<"{">>

\* `} else {`
CloseOpen ==
    <<"}"," ","e","l","s","e"," ","{">>

\* `    """Adds two numbers."""`
PyDocOneLine ==
    <<" "," "," "," ","\"","\"","\"","A","d","d","s"," ","t","w","o"," ","n","u","m","b","e","r","s",".","\"","\"","\"">>

\* `    """`
PyDocQuotes ==
    <<" "," "," "," ","\"","\"","\"">>

\* `    Adds two numbers.`
PyDocText ==
    <<" "," "," "," ","A","d","d","s"," ","t","w","o"," ","n","u","m","b","e","r","s",".">>

\* `    """Adds two numbers.'''`
PyDocMixed ==
    <<" "," "," "," ","\"","\"","\"","A","d","d","s"," ","t","w","o"," ","n","u","m","b","e","r","s",".","'","'","'">>

\* `    '''`
PyDocSingleQuotes ==
    <<" "," "," "," ","'","'","'">>

\* `    '''Adds two numbers.'''`
PyDocSingleOneLine ==
    <<" "," "," "," ","'","'","'","A","d","d","s"," ","t","w","o"," ","n","u","m","b","e","r","s",".","'","'","'">>

\* `undefined`: what String(undefined) gives: RegExp.exec coerces a missing array element to it
UndefinedText ==
    <<"u","n","d","e","f","i","n","e","d">>

(***************************************************************************)
(* Regular expressions.  A pattern is a sequence of nodes:                 *)
(*   cls  one character class with a quantifier (min 0 or 1, one or many,  *)
(*        greedy or lazy); neg complements the set                         *)
(*   opt  an optional group (?: ... )?, its content in sub                 *)
(*   alt  an alternation, its branches in alts                             *)
(*   capS, capE  the opening and closing of capture group k                *)
(*   bol  the anchor ^                                                     *)
(***************************************************************************)
Node(t, set, neg, min, many, lazy, sub, alts, k) ==
    [t |-> t, set |-> set, neg |-> neg, min |-> min, many |-> many,
     lazy |-> lazy, sub |-> sub, alts |-> alts, k |-> k]

One(set) ==
    Node("cls", set, FALSE, 1, FALSE, FALSE, << >>, << >>, 0)

Star(set) ==
    Node("cls", set, FALSE, 0, TRUE, FALSE, << >>, << >>, 0)

Plus(set) ==
    Node("cls", set, FALSE, 1, TRUE, FALSE, << >>, << >>, 0)

\* [^...]*
StarNot(set) ==
    Node("cls", set, TRUE, 0, TRUE, FALSE, << >>, << >>, 0)

\* [^...]+
PlusNot(set) ==
    Node("cls", set, TRUE, 1, TRUE, FALSE, << >>, << >>, 0)

\* .*?  (the dot matches everything but a line terminator)
LazyAny ==
    Node("cls", {"\n", "\r"}, TRUE, 0, TRUE, TRUE, << >>, << >>, 0)

Opt(sub) ==
    Node("opt", {}, FALSE, 0, FALSE, FALSE, sub, << >>, 0)

Alt(alts) ==
    Node("alt", {}, FALSE, 0, FALSE, FALSE, << >>, alts, 0)

Bol ==
    Node("bol", {}, FALSE, 0, FALSE, FALSE, << >>, << >>, 0)

CapS(k) ==
    Node("capS", {}, FALSE, 0, FALSE, FALSE, << >>, << >>, k)

CapE(k) ==
    Node("capE", {}, FALSE, 0, FALSE, FALSE, << >>, << >>, k)

\* ( ... ) as capture group k
Cap(k, sub) ==
    <<CapS(k)>> \o sub \o <<CapE(k)>>

\* a literal string
Lit(str) ==
    [i \in 1..Len(str) |-> One({str[i]})]

\* no capture group has taken part in the match
NoCaps ==
    [k \in 1..5 |-> <<0, 0>>]

NoMatch ==
    [ok |-> FALSE, index |-> 0, end |-> 0, caps |-> NoCaps]

InClass(n, c) ==
    (c \in n.set) # n.neg

RECURSIVE Run(_, _, _)
\* the length of the run of characters of the class of n that begins at pos
Run(n, s, pos) ==
    IF pos <= Len(s) /\ InClass(n, s[pos]) THEN 1 + Run(n, s, pos + 1) ELSE 0

\* how many characters from pos on the class of n can take
RunLength(n, s, pos) ==
    IF n.many THEN Run(n, s, pos)
    ELSE IF pos <= Len(s) /\ InClass(n, s[pos]) THEN 1 ELSE 0

RECURSIVE MatchHere(_, _, _, _)
RECURSIVE TryGreedy(_, _, _, _, _, _)
RECURSIVE TryLazy(_, _, _, _, _, _, _)
RECURSIVE TryAlts(_, _, _, _, _, _)

\* the pattern `nodes` matched at position pos of s (1-based), backtracking
\* in the order of the ECMAScript matcher: greedy counts longest first,
\* alternatives left to right, an optional group taken before it is skipped
MatchHere(nodes, s, pos, caps) ==
    IF nodes = << >>
    THEN [ok |-> TRUE, index |-> 0, end |-> pos, caps |-> caps]
    ELSE LET n == Head(nodes)
             rest == Tail(nodes)
         IN  CASE n.t = "bol" ->
                    IF pos = 1 THEN MatchHere(rest, s, pos, caps) ELSE NoMatch
               [] n.t = "capS" ->
                    MatchHere(rest, s, pos, [caps EXCEPT ![n.k] = <<pos, pos>>])
               [] n.t = "capE" ->
                    MatchHere(rest, s, pos,
                              [caps EXCEPT ![n.k] = <<caps[n.k][1], pos>>])
               [] n.t = "opt" ->
                    LET taken == MatchHere(n.sub \o rest, s, pos, caps)
                    IN  IF taken.ok THEN taken
                        ELSE MatchHere(rest, s, pos, caps)
               [] n.t = "alt" ->
                    TryAlts(n.alts, 1, rest, s, pos, caps)
               [] OTHER ->
                    IF n.lazy
                    THEN TryLazy(n, rest, s, pos, n.min, RunLength(n, s, pos), caps)
                    ELSE TryGreedy(n, rest, s, pos, RunLength(n, s, pos), caps)

TryGreedy(n, rest, s, pos, count, caps) ==
    IF count < n.min THEN NoMatch
    ELSE LET r == MatchHere(rest, s, pos + count, caps)
         IN  IF r.ok THEN r ELSE TryGreedy(n, rest, s, pos, count - 1, caps)

TryLazy(n, rest, s, pos, count, most, caps) ==
    IF count > most THEN NoMatch
    ELSE LET r == MatchHere(rest, s, pos + count, caps)
         IN  IF r.ok THEN r ELSE TryLazy(n, rest, s, pos, count + 1, most, caps)

TryAlts(alts, a, rest, s, pos, caps) ==
    IF a > Len(alts) THEN NoMatch
    ELSE LET r == MatchHere(alts[a] \o rest, s, pos, caps)
         IN  IF r.ok THEN r ELSE TryAlts(alts, a + 1, rest, s, pos, caps)

\* the leftmost match of the pattern in s starting at position start or later
ExecFrom(pattern, s, start) ==
    LET hits == {p \in start..(Len(s) + 1) :
                    MatchHere(pattern, s, p, NoCaps).ok}
    IN  IF hits = {} THEN NoMatch
        ELSE LET first == CHOOSE p \in hits : \A q \in hits : p <= q
             IN  [MatchHere(pattern, s, first, NoCaps) EXCEPT !.index = first]

\* pattern.exec(s) with pattern.lastIndex = lastIndex (0-based): null is NoMatch
Exec(pattern, s, lastIndex) ==
    ExecFrom(pattern, s, lastIndex + 1)

\* match[k]
Group(s, m, k) ==
    SubSeq(s, m.caps[k][1], m.caps[k][2] - 1)

(***************************************************************************)
(* The signature patterns.                                                 *)
(***************************************************************************)
\* /function\s+([A-Za-z0-9_$]+)\s*\(([^)]*)\)\s*{/g
FunctionDeclarationPattern ==
    Lit(<<"f","u","n","c","t","i","o","n">>) \o <<Plus(Space)>>
    \o Cap(1, <<Plus(WordDollar)>>) \o <<Star(Space)>>
    \o Lit(<<"(">>) \o Cap(2, <<StarNot({")"})>>) \o Lit(<<")">>)
    \o <<Star(Space)>> \o Lit(<<"{">>)

\* /(?:const|let|var)\s+([A-Za-z0-9_$]+)\s*=\s*(?:async\s*)?\(([^)]*)\)\s*=>\s*{/g
ArrowFunctionPattern ==
    <<Alt(<<Lit(<<"c","o","n","s","t">>), Lit(<<"l","e","t">>), Lit(<<"v","a","r">>)>>)>> \o <<Plus(Space)>>
    \o Cap(1, <<Plus(WordDollar)>>) \o <<Star(Space)>>
    \o Lit(<<"=">>) \o <<Star(Space)>>
    \o <<Opt(Lit(<<"a","s","y","n","c">>) \o <<Star(Space)>>)>>
    \o Lit(<<"(">>) \o Cap(2, <<StarNot({")"})>>) \o Lit(<<")">>)
    \o <<Star(Space)>> \o Lit(<<"=",">">>) \o <<Star(Space)>> \o Lit(<<"{">>)

\* /([A-Za-z0-9_$]+)\s*\(([^)]*)\)\s*{/g
MethodPattern ==
    Cap(1, <<Plus(WordDollar)>>) \o <<Star(Space)>>
    \o Lit(<<"(">>) \o Cap(2, <<StarNot({")"})>>) \o Lit(<<")">>)
    \o <<Star(Space)>> \o Lit(<<"{">>)

\* /(?:public|private|protected)?\s*(?:static)?\s*(?:async)?\s*([A-Za-z0-9_$]+)\s*\(([^)]*)\)\s*(?::\s*[^{]+)?\s*{/g
ClassMethodPattern ==
    <<Opt(<<Alt(<<Lit(<<"p","u","b","l","i","c">>), Lit(<<"p","r","i","v","a","t","e">>), Lit(<<"p","r","o","t","e","c","t","e","d">>)>>)>>)>> \o <<Star(Space)>>
    \o <<Opt(Lit(<<"s","t","a","t","i","c">>))>> \o <<Star(Space)>>
    \o <<Opt(Lit(<<"a","s","y","n","c">>))>> \o <<Star(Space)>>
    \o Cap(1, <<Plus(WordDollar)>>) \o <<Star(Space)>>
    \o Lit(<<"(">>) \o Cap(2, <<StarNot({")"})>>) \o Lit(<<")">>) \o <<Star(Space)>>
    \o <<Opt(Lit(<<":">>) \o <<Star(Space), PlusNot({"{"})>>)>>
    \o <<Star(Space)>> \o Lit(<<"{">>)

\* /^\s*def\s+([A-Za-z0-9_]+)\s*\(([^)]*)\)\s*(?:->.*?)?:/
PythonPattern ==
    <<Bol, Star(Space)>> \o Lit(<<"d","e","f">>) \o <<Plus(Space)>>
    \o Cap(1, <<Plus(Word)>>) \o <<Star(Space)>>
    \o Lit(<<"(">>) \o Cap(2, <<StarNot({")"})>>) \o Lit(<<")">>) \o <<Star(Space)>>
    \o <<Opt(Lit(<<"-",">">>) \o <<LazyAny>>)>> \o Lit(<<":">>)

\* mutant of CStylePattern: the opening brace at the end is optional, {?
CStylePatternBraceOptional ==
    <<Bol, Star(Space)>>
    \o <<Opt(Cap(1, <<Alt(<<Lit(<<"p","u","b","l","i","c">>), Lit(<<"p","r","i","v","a","t","e">>), Lit(<<"p","r","o","t","e","c","t","e","d">>)>>)>>))>>
    \o <<Star(Space)>>
    \o <<Opt(Cap(2, Lit(<<"s","t","a","t","i","c">>)))>> \o <<Star(Space)>>
    \o Cap(3, <<Plus(TypeChar)>>) \o <<Plus(Space)>>
    \o Cap(4, <<Plus(Word)>>) \o <<Star(Space)>>
    \o Lit(<<"(">>) \o Cap(5, <<StarNot({")"})>>) \o Lit(<<")">>) \o <<Star(Space)>>
    \o <<Opt(Lit(<<"t","h","r","o","w","s">>) \o <<Plus(Space), Plus(ThrowsChar)>>)>>
    \o <<Star(Space)>> \o <<Opt(Lit(<<"{">>))>>

\* /^\s*(public|private|protected)?\s*(static)?\s*([A-Za-z0-9_<>[\]]+)\s+([A-Za-z0-9_]+)\s*\(([^)]*)\)\s*(?:throws\s+[A-Za-z0-9_,\s]+)?\s*{/
CStylePattern ==
    <<Bol, Star(Space)>>
    \o <<Opt(Cap(1, <<Alt(<<Lit(<<"p","u","b","l","i","c">>), Lit(<<"p","r","i","v","a","t","e">>), Lit(<<"p","r","o","t","e","c","t","e","d">>)>>)>>))>>
    \o <<Star(Space)>>
    \o <<Opt(Cap(2, Lit(<<"s","t","a","t","i","c">>)))>> \o <<Star(Space)>>
    \o Cap(3, <<Plus(TypeChar)>>) \o <<Plus(Space)>>
    \o Cap(4, <<Plus(Word)>>) \o <<Star(Space)>>
    \o Lit(<<"(">>) \o Cap(5, <<StarNot({")"})>>) \o Lit(<<")">>) \o <<Star(Space)>>
    \o <<Opt(Lit(<<"t","h","r","o","w","s">>) \o <<Plus(Space), Plus(ThrowsChar)>>)>>
    \o <<Star(Space)>> \o Lit(<<"{">>)

\* mutant of GenericPattern: the fallback asks for an opening brace after the
\* parameter list, as the JavaScript method pattern does
GenericPatternWithBrace ==
    Cap(1, <<Plus(Word)>>) \o <<Star(Space)>>
    \o Lit(<<"(">>) \o Cap(2, <<StarNot({")"})>>) \o Lit(<<")">>)
    \o <<Star(Space)>> \o Lit(<<"{">>)

\* /([A-Za-z0-9_]+)\s*\(([^)]*)\)/
GenericPattern ==
    Cap(1, <<Plus(Word)>>) \o <<Star(Space)>>
    \o Lit(<<"(">>) \o Cap(2, <<StarNot({")"})>>) \o Lit(<<")">>)

PatternIds ==
    {"function", "arrow", "method", "classMethod", "python", "cstyle", "generic"}

PatternOf(id) ==
    CASE id = "function" -> FunctionDeclarationPattern
      [] id = "arrow" -> ArrowFunctionPattern
      [] id = "method" -> MethodPattern
      [] id = "classMethod" -> ClassMethodPattern
      [] id = "python" -> PythonPattern
      [] id = "cstyle" -> CStylePattern
      [] id = "generic" -> GenericPattern

\* mutant of functionPatternIds: the bare method pattern stands first in the
\* array
functionPatternIdsMethodFirst ==
    <<"method", "function", "arrow", "classMethod">>

\* const functionPatterns = [...]: the patterns in the order a line is tried
\* against them
functionPatternIds ==
    <<"function", "arrow", "method", "classMethod">>

\* every text a pattern is run on: the lines of the documents and the
\* string an absent array element is coerced to
Texts ==
    {Blank, Prose, CloseBrace, Statement, JsFunction, IfBlock, PyDef, PyReturn,
     PyTop, PyInnerDef, PyInnerReturn, CFunction, CElseIf, GenCall,
     GenFunction, UndefinedText, DocOpen, DocText, DocNestedOpen, DocClose,
     DocOneLine, LineComment, TsFunction, TsCallback, JsOneLine, ArrowIf,
     CHeader, CThrows, OpenBrace, CloseOpen, PyDocOneLine, PyDocQuotes,
     PyDocText, PyDocMixed, PyDocSingleQuotes, PyDocSingleOneLine}

\* the patterns are constants and a pattern is always run from lastIndex 0
\* (line 103 resets it; the patterns without the g flag ignore it), so each
\* (pattern, text) pair is matched once
ExecCache ==
    [id \in PatternIds |-> [s \in Texts |-> Exec(PatternOf(id), s, 0)]]

\* pattern.exec(lineText)
exec(id, lineText) ==
    ExecCache[id][lineText]

(***************************************************************************)
(* Strings.                                                                *)
(***************************************************************************)
RECURSIVE FirstSolid(_, _)
\* the first position from i on that holds no blank, or Len(s) + 1
FirstSolid(s, i) ==
    IF i > Len(s) \/ s[i] \notin Space THEN i ELSE FirstSolid(s, i + 1)

RECURSIVE LastSolid(_, _)
\* the last position up to i that holds no blank, or 0
LastSolid(s, i) ==
    IF i < 1 \/ s[i] \notin Space THEN i ELSE LastSolid(s, i - 1)

\* String.prototype.trim
Trim(s) ==
    IF FirstSolid(s, 1) > Len(s) THEN << >>
    ELSE SubSeq(s, FirstSolid(s, 1), LastSolid(s, Len(s)))

\* s.search(/\S/): the 0-based index of the first non-blank character, or -1
SearchNonSpace(s) ==
    LET solid == {i \in 1..Len(s) : s[i] \notin Space}
    IN  IF solid = {} THEN -1
        ELSE (CHOOSE i \in solid : \A j \in solid : i <= j) - 1

StartsWith(s, prefix) ==
    /\ Len(s) >= Len(prefix)
    /\ SubSeq(s, 1, Len(prefix)) = prefix

EndsWith(s, suffix) ==
    /\ Len(s) >= Len(suffix)
    /\ SubSeq(s, Len(s) - Len(suffix) + 1, Len(s)) = suffix

\* s.includes(c)
Includes(s, c) ==
    \E i \in 1..Len(s) : s[i] = c

RECURSIVE Join(_, _)
\* pieces.join(sep)
Join(pieces, sep) ==
    IF pieces = << >> THEN << >>
    ELSE IF Len(pieces) = 1 THEN pieces[1]
    ELSE pieces[1] \o sep \o Join(Tail(pieces), sep)

\* text.split('\n')
Split(text) ==
    LET breaks == {i \in 1..Len(text) : text[i] = "\n"}
        \* the position of the k-th line break; 0 before the first piece,
        \* Len(text) + 1 after the last
        Break(k) == IF k = 0 THEN 0
                    ELSE IF k > Cardinality(breaks) THEN Len(text) + 1
                    ELSE CHOOSE p \in breaks :
                            Cardinality({q \in breaks : q < p}) = k - 1
    IN  [k \in 1..(Cardinality(breaks) + 1) |->
            SubSeq(text, Break(k - 1) + 1, Break(k) - 1)]

(***************************************************************************)
(* The document (vscode.TextDocument): its lines, without line breaks.     *)
(***************************************************************************)
\* document.getText()
getText(document) ==
    Join(document, <<"\n">>)

\* lines[i] of a JavaScript array: undefined outside it
Undefined ==
    [defined |-> FALSE, text |-> << >>]

Defined(text) ==
    [defined |-> TRUE, text |-> text]

ElementAt(lines, i) ==
    IF i >= 0 /\ i < Len(lines) THEN Defined(lines[i + 1]) ELSE Undefined

\* String(lineText), the coercion RegExp.exec applies to its argument
Coerce(element) ==
    IF element.defined THEN element.text ELSE UndefinedText

\* document.lineAt(i): throws on a line that is not in the document
lineAtThrows(document, i) ==
    ~(i >= 0 /\ i < Len(document))

(***************************************************************************)
(* What findFunctionAtPosition returns.                                    *)
(***************************************************************************)
Null ==
    [kind |-> "null"]

Thrown ==
    [kind |-> "thrown"]

FunctionInfo(name, signature, body, startLine, endLine, language, doc) ==
    [kind |-> "function", name |-> name, signature |-> signature,
     body |-> body, startLine |-> startLine, endLine |-> endLine,
     language |-> language, existingDocumentation |-> doc]

(***************************************************************************)
(* findFunctionBody                                                        *)
(***************************************************************************)
\* the number of `{` in a line
CountOpen(lineText) ==
    Cardinality({i \in 1..Len(lineText) : lineText[i] = "{"})

RECURSIVE SeekOpeningBraceSkipping(_, _, _)
\* mutant of SeekOpeningBrace: a line without `{` is passed over, it is not
\* appended to the body
SeekOpeningBraceSkipping(lines, i, acc) ==
    IF i >= Len(lines) THEN acc
    ELSE LET currentLine == lines[i + 1]
         IN  IF Includes(currentLine, "{")
             THEN [body |-> acc.body \o currentLine \o <<"\n">>,
                   endLine |-> i, braceCount |-> CountOpen(currentLine)]
             ELSE SeekOpeningBraceSkipping(lines, i + 1,
                                           [acc EXCEPT !.endLine = i])

RECURSIVE SeekOpeningBrace(_, _, _)
\* lines 337-351: from line i on, append lines until one holds a `{`
SeekOpeningBrace(lines, i, acc) ==
    IF i >= Len(lines) THEN acc
    ELSE LET currentLine == lines[i + 1]
             next == [body |-> acc.body \o currentLine \o <<"\n">>,
                      endLine |-> i, braceCount |-> acc.braceCount]
         IN  IF Includes(currentLine, "{")
             THEN [next EXCEPT !.braceCount = CountOpen(currentLine)]
             ELSE SeekOpeningBrace(lines, i + 1, next)

RECURSIVE ScanBraces(_, _, _)
\* lines 361-371: the brace count after the characters of a line from j on;
\* the scan of the line stops at the `}` that brings the count to zero
ScanBraces(currentLine, j, braceCount) ==
    IF j >= Len(currentLine) THEN braceCount
    ELSE IF currentLine[j + 1] = "{"
    THEN ScanBraces(currentLine, j + 1, braceCount + 1)
    ELSE IF currentLine[j + 1] = "}"
    THEN IF braceCount - 1 = 0 THEN 0
         ELSE ScanBraces(currentLine, j + 1, braceCount - 1)
    ELSE ScanBraces(currentLine, j + 1, braceCount)

RECURSIVE SeekClosingBraceToEnd(_, _, _)
\* mutant of SeekClosingBrace: the loop does not test braceCount > 0 and runs
\* to the end of the document
SeekClosingBraceToEnd(lines, i, acc) ==
    IF ~(i < Len(lines)) THEN acc
    ELSE LET currentLine == lines[i + 1]
         IN  SeekClosingBraceToEnd(lines, i + 1,
                [body |-> acc.body \o currentLine \o <<"\n">>,
                 endLine |-> i,
                 braceCount |-> ScanBraces(currentLine, 0, acc.braceCount)])

RECURSIVE SeekClosingBraceInclusive(_, _, _)
\* mutant of SeekClosingBrace: the loop test is i <= lines.length, the
\* element after the last line is read and counted as a line
SeekClosingBraceInclusive(lines, i, acc) ==
    IF ~(i <= Len(lines) /\ acc.braceCount > 0) THEN acc
    ELSE LET currentLine == Coerce(ElementAt(lines, i))
         IN  SeekClosingBraceInclusive(lines, i + 1,
                [body |-> acc.body \o currentLine \o <<"\n">>,
                 endLine |-> i,
                 braceCount |-> ScanBraces(currentLine, 0, acc.braceCount)])

RECURSIVE SeekClosingBraceShort(_, _, _)
\* mutant of SeekClosingBrace: the loop test is i < lines.length - 1, the
\* last line of the document is never taken
SeekClosingBraceShort(lines, i, acc) ==
    IF ~(i < Len(lines) - 1 /\ acc.braceCount > 0) THEN acc
    ELSE LET currentLine == lines[i + 1]
         IN  SeekClosingBraceShort(lines, i + 1,
                [body |-> acc.body \o currentLine \o <<"\n">>,
                 endLine |-> i,
                 braceCount |-> ScanBraces(currentLine, 0, acc.braceCount)])

RECURSIVE SeekClosingBrace(_, _, _)
\* lines 355-372: append lines while the brace count is positive
SeekClosingBrace(lines, i, acc) ==
    IF ~(i < Len(lines) /\ acc.braceCount > 0) THEN acc
    ELSE LET currentLine == lines[i + 1]
         IN  SeekClosingBrace(lines, i + 1,
                [body |-> acc.body \o currentLine \o <<"\n">>,
                 endLine |-> i,
                 braceCount |-> ScanBraces(currentLine, 0, acc.braceCount)])

findFunctionBody(document, startLine) ==
    LET lines == Split(getText(document))
        lineText == lines[startLine + 1]
        first == [body |-> lineText \o <<"\n">>, endLine |-> startLine,
                  braceCount |-> CountOpen(lineText)]
        opened == IF first.braceCount = 0
                  THEN SeekOpeningBrace(lines, startLine + 1, first)
                  ELSE first
        closed == SeekClosingBrace(lines, opened.endLine + 1, opened)
    IN  [body |-> closed.body, startLine |-> startLine,
         endLine |-> closed.endLine]

(***************************************************************************)
(* findExistingDocumentation and findPythonDocstring                       *)
(***************************************************************************)
RECURSIVE SkipEmptyLines(_, _)
\* lines 394-396
SkipEmptyLines(lines, startLine) ==
    IF startLine >= 0 /\ Trim(lines[startLine + 1]) = << >>
    THEN SkipEmptyLines(lines, startLine - 1)
    ELSE startLine

RECURSIVE CollectDocCommentToTop(_, _, _)
\* as lines 407-417, but a walk that reaches the start of the buffer returns
\* what it collected
CollectDocCommentToTop(lines, startLine, docLines) ==
    IF startLine < 0 THEN Defined(Join(docLines, <<"\n">>))
    ELSE LET collected == <<lines[startLine + 1]>> \o docLines
         IN  IF StartsWith(Trim(lines[startLine + 1]), <<"/", "*", "*">>)
             THEN Defined(Join(collected, <<"\n">>))
             ELSE CollectDocCommentToTop(lines, startLine - 1, collected)

RECURSIVE CollectDocComment(_, _, _)
\* lines 407-417: walk up from the closing line to the line opening with /**
CollectDocComment(lines, startLine, docLines) ==
    IF startLine < 0 THEN Undefined
    ELSE LET collected == <<lines[startLine + 1]>> \o docLines
         IN  IF StartsWith(Trim(lines[startLine + 1]), <<"/", "*", "*">>)
             THEN Defined(Join(collected, <<"\n">>))
             ELSE CollectDocComment(lines, startLine - 1, collected)

findExistingDocumentation(document, functionStartLine) ==
    LET lines == Split(getText(document))
        startLine == SkipEmptyLines(lines, functionStartLine - 1)
    IN  IF startLine < 0 THEN Undefined
        ELSE IF EndsWith(Trim(lines[startLine + 1]), <<"*", "/">>)
        THEN CollectDocComment(lines, startLine, << >>)
        ELSE Undefined

RECURSIVE CollectDocstring(_, _, _, _)
\* lines 454-462: append lines up to the one ending with the quotes
CollectDocstring(lines, i, quoteType, docLines) ==
    IF i >= Len(lines) THEN docLines
    ELSE LET collected == Append(docLines, lines[i + 1])
         IN  IF EndsWith(Trim(lines[i + 1]), quoteType) THEN collected
             ELSE CollectDocstring(lines, i + 1, quoteType, collected)

RECURSIVE NextInkedLine(_, _)
\* the first line at or after index i that is not blank, or the length
NextInkedLine(lines, i) ==
    IF i < Len(lines) /\ Trim(lines[i + 1]) = << >>
    THEN NextInkedLine(lines, i + 1)
    ELSE i

\* as findPythonDocstring, but blank lines below the def line are skipped
findPythonDocstringSkipping(document, functionStartLine, lines) ==
    LET at == NextInkedLine(lines, functionStartLine + 1)
        double == <<"\"", "\"", "\"">>
        single == <<"'", "'", "'">>
    IN  IF at < Len(lines)
        THEN LET nextLine == Trim(lines[at + 1])
             IN  IF StartsWith(nextLine, double) \/ StartsWith(nextLine, single)
                 THEN LET docLines ==
                            IF /\ ~(EndsWith(nextLine, double) /\ Len(nextLine) > 3)
                               /\ ~(EndsWith(nextLine, single) /\ Len(nextLine) > 3)
                            THEN CollectDocstring(lines, at + 1,
                                    IF StartsWith(nextLine, double)
                                    THEN double ELSE single,
                                    <<lines[at + 1]>>)
                            ELSE <<lines[at + 1]>>
                      IN  Defined(Join(docLines, <<"\n">>))
                 ELSE Undefined
        ELSE Undefined

findPythonDocstring(document, functionStartLine, lines) ==
    LET functionLine == functionStartLine
        double == <<"\"", "\"", "\"">>
        single == <<"'", "'", "'">>
    IN  IF functionLine + 1 < Len(lines)
        THEN LET nextLine == Trim(lines[functionLine + 2])
             IN  IF StartsWith(nextLine, double) \/ StartsWith(nextLine, single)
                 THEN LET docLines ==
                            IF /\ ~(EndsWith(nextLine, double) /\ Len(nextLine) > 3)
                               /\ ~(EndsWith(nextLine, single) /\ Len(nextLine) > 3)
                            THEN CollectDocstring(lines, functionLine + 2,
                                    IF StartsWith(nextLine, double)
                                    THEN double ELSE single,
                                    <<lines[functionLine + 2]>>)
                            ELSE <<lines[functionLine + 2]>>
                      IN  Defined(Join(docLines, <<"\n">>))
                 ELSE Undefined
        ELSE Undefined

(***************************************************************************)
(* The four signature matchers.                                            *)
(***************************************************************************)
\* the number of lines above the cursor line that are searched
JavaScriptLookback ==
    10

PythonLookback ==
    10

CStyleLookback ==
    10

GenericLookback ==
    5

\* mutant of LowestLine: the loop test is i > ... instead of i >= ..., the
\* line lookback lines above the cursor is not looked at
LowestLineExclusive(currentLine, lookback) ==
    IF currentLine - lookback > 0 THEN currentLine - lookback + 1 ELSE 0

\* mutant of LowestLine: Math.max(0, ...) is left out
LowestLineUnclamped(currentLine, lookback) ==
    currentLine - lookback

\* Math.max(0, currentLine - lookback), where the upward search stops
LowestLine(currentLine, lookback) ==
    IF currentLine - lookback > 0 THEN currentLine - lookback ELSE 0

RECURSIVE FirstPattern(_, _)
\* lines 102-106: the index in functionPatterns of the first pattern, from
\* index p on, that matches the line; 0 when none does
FirstPattern(lineText, p) ==
    IF p > Len(functionPatternIds) THEN 0
    ELSE IF exec(functionPatternIds[p], lineText).ok THEN p
    ELSE FirstPattern(lineText, p + 1)

RECURSIVE ScanJavaScript(_, _, _, _, _)
\* lines 99-129, from line i down to line low
ScanJavaScript(document, languageId, lines, i, low) ==
    IF i < low THEN Null
    ELSE LET lineText == ElementAt(lines, i)
             p == FirstPattern(Coerce(lineText), 1)
         IN  IF p = 0
             THEN ScanJavaScript(document, languageId, lines, i - 1, low)
             ELSE IF ~lineText.defined THEN Thrown  \* undefined.trim()
             ELSE LET match == exec(functionPatternIds[p], lineText.text)
                      found == findFunctionBody(document, i)
                  IN  FunctionInfo(Group(lineText.text, match, 1),
                                   Trim(lineText.text), found.body,
                                   found.startLine, found.endLine, languageId,
                                   findExistingDocumentation(document,
                                                             found.startLine))

findJavaScriptFunction(document, languageId, currentLine) ==
    ScanJavaScript(document, languageId, Split(getText(document)), currentLine,
                   LowestLine(currentLine, JavaScriptLookback))

RECURSIVE CollectIndentedShort(_, _, _, _)
\* mutant of CollectIndented: the loop test is j < lines.length - 1, the last
\* line of the document is never looked at
CollectIndentedShort(lines, j, defIndent, acc) ==
    IF j >= Len(lines) - 1 THEN acc
    ELSE LET bodyLine == lines[j + 1]
             lineIndent == SearchNonSpace(bodyLine)
             next == [body |-> acc.body \o bodyLine \o <<"\n">>, endLine |-> j]
         IN  IF Trim(bodyLine) = << >>
             THEN CollectIndentedShort(lines, j + 1, defIndent, next)
             ELSE IF lineIndent <= defIndent /\ lineIndent # -1 THEN acc
             ELSE CollectIndentedShort(lines, j + 1, defIndent, next)

RECURSIVE CollectIndentedStrict(_, _, _, _)
\* mutant of CollectIndented: the function ends at a line indented less than
\* the def line (<), a line indented as the def line does not end it
CollectIndentedStrict(lines, j, defIndent, acc) ==
    IF j >= Len(lines) THEN acc
    ELSE LET bodyLine == lines[j + 1]
             lineIndent == SearchNonSpace(bodyLine)
             next == [body |-> acc.body \o bodyLine \o <<"\n">>, endLine |-> j]
         IN  IF Trim(bodyLine) = << >>
             THEN CollectIndentedStrict(lines, j + 1, defIndent, next)
             ELSE IF lineIndent < defIndent /\ lineIndent # -1 THEN acc
             ELSE CollectIndentedStrict(lines, j + 1, defIndent, next)

RECURSIVE CollectIndented(_, _, _, _)
\* lines 169-189: the lines below the def line that belong to the function
CollectIndented(lines, j, defIndent, acc) ==
    IF j >= Len(lines) THEN acc
    ELSE LET bodyLine == lines[j + 1]
             lineIndent == SearchNonSpace(bodyLine)
             next == [body |-> acc.body \o bodyLine \o <<"\n">>, endLine |-> j]
         IN  IF Trim(bodyLine) = << >>
             THEN CollectIndented(lines, j + 1, defIndent, next)
             ELSE IF lineIndent <= defIndent /\ lineIndent # -1 THEN acc
             ELSE CollectIndented(lines, j + 1, defIndent, next)

RECURSIVE ScanPython(_, _, _, _)
\* lines 152-206, from line i down to line low
ScanPython(document, lines, i, low) ==
    IF i < low THEN Null
    ELSE LET lineText == ElementAt(lines, i)
             match == exec("python", Coerce(lineText))
         IN  IF ~match.ok THEN ScanPython(document, lines, i - 1, low)
             ELSE IF ~lineText.defined THEN Thrown  \* undefined.trim()
             ELSE LET startLine == i
                      collected ==
                          CollectIndented(lines, i + 1,
                                          SearchNonSpace(lineText.text),
                                          [body |-> << >>, endLine |-> i])
                  IN  FunctionInfo(Group(lineText.text, match, 1),
                                   Trim(lineText.text), collected.body,
                                   startLine, collected.endLine,
                                   "python",
                                   findPythonDocstring(document, startLine,
                                                       lines))

findPythonFunction(document, currentLine) ==
    ScanPython(document, Split(getText(document)), currentLine,
               LowestLine(currentLine, PythonLookback))

RECURSIVE ScanCStyle(_, _, _, _, _)
\* lines 233-259, from line i down to line low
ScanCStyle(document, languageId, lines, i, low) ==
    IF i < low THEN Null
    ELSE LET lineText == ElementAt(lines, i)
             match == exec("cstyle", Coerce(lineText))
         IN  IF ~match.ok
             THEN ScanCStyle(document, languageId, lines, i - 1, low)
             ELSE IF ~lineText.defined THEN Thrown  \* undefined.trim()
             ELSE LET found == findFunctionBody(document, i)
                  IN  FunctionInfo(Group(lineText.text, match, 4),
                                   Trim(lineText.text), found.body, i,
                                   found.endLine, languageId,
                                   findExistingDocumentation(document,
                                                             found.startLine))

findCStyleFunction(document, languageId, currentLine) ==
    ScanCStyle(document, languageId, Split(getText(document)), currentLine,
               LowestLine(currentLine, CStyleLookback))

RECURSIVE ScanGeneric(_, _, _, _)
\* lines 283-305, from line i down to line low
ScanGeneric(document, languageId, i, low) ==
    IF i < low THEN Null
    ELSE IF lineAtThrows(document, i) THEN Thrown
    ELSE LET lineText == document[i + 1]
             match == exec("generic", lineText)
         IN  IF ~match.ok THEN ScanGeneric(document, languageId, i - 1, low)
             ELSE LET found == findFunctionBody(document, i)
                  IN  FunctionInfo(Group(lineText, match, 1), Trim(lineText),
                                   found.body, found.startLine, found.endLine,
                                   languageId,
                                   findExistingDocumentation(document,
                                                             found.startLine))

findGenericFunction(document, languageId, currentLine) ==
    ScanGeneric(document, languageId, currentLine,
                LowestLine(currentLine, GenericLookback))

(***************************************************************************)
(* findFunctionAtPosition                                                  *)
(***************************************************************************)
JavaScriptLanguages ==
    {"javascript", "typescript", "typescriptreact", "javascriptreact"}

CStyleLanguages ==
    {"java", "csharp", "cpp", "c"}

\* mutant of findFunctionAtPosition: the switch has no case 'cpp', the tag
\* falls to the default
findFunctionAtPositionNoCpp(document, languageId, line) ==
    IF lineAtThrows(document, line) THEN Thrown
    ELSE IF languageId \in JavaScriptLanguages
    THEN findJavaScriptFunction(document, languageId, line)
    ELSE IF languageId = "python"
    THEN findPythonFunction(document, line)
    ELSE IF languageId \in CStyleLanguages \ {"cpp"}
    THEN findCStyleFunction(document, languageId, line)
    ELSE findGenericFunction(document, languageId, line)

findFunctionAtPosition(document, languageId, line) ==
    IF lineAtThrows(document, line) THEN Thrown  \* document.lineAt(line)
    ELSE IF languageId \in JavaScriptLanguages
    THEN findJavaScriptFunction(document, languageId, line)
    ELSE IF languageId = "python"
    THEN findPythonFunction(document, line)
    ELSE IF languageId \in CStyleLanguages
    THEN findCStyleFunction(document, languageId, line)
    ELSE findGenericFunction(document, languageId, line)

(***************************************************************************)
(* The documents, language tags and cursor lines the locator is run on.    *)
(***************************************************************************)
\* the longest document made of freely chosen lines
MaxLines ==
    3

\* the longest document made of filler lines around one header line
MaxPaddedLines ==
    12

\* the longest freely made document a sequence of calls is run on
MaxRepeatLines ==
    2

\* the most calls followed after a call was kept for comparison
MaxCallsAfter ==
    2

\* the most blank lines between a doc comment and the header below it
MaxBlankLines ==
    2

\* the most text lines between the opening and the closing line of a comment
MaxDocTextLines ==
    2

\* the most lines below the header of a document made of brace lines
MaxBraceLines ==
    3

\* language tags the switch does not name
OtherLanguages ==
    {"plaintext", "go"}

LanguageIds ==
    JavaScriptLanguages \cup {"python"} \cup CStyleLanguages \cup OtherLanguages

\* the lines a document of a language is made of
LinesOf(languageId) ==
    IF languageId \in JavaScriptLanguages
    THEN {JsFunction, Statement, CloseBrace, Blank, IfBlock, Prose}
    ELSE IF languageId = "python"
    THEN {PyDef, PyReturn, Blank, PyTop, PyInnerDef, PyInnerReturn, Prose}
    ELSE IF languageId \in CStyleLanguages
    THEN {CFunction, Statement, CloseBrace, Blank, CElseIf, Prose}
    ELSE {GenCall, GenFunction, CloseBrace, Blank, Statement, Prose}

\* a line the matcher of the language takes for a function header
HeaderOf(languageId) ==
    IF languageId \in JavaScriptLanguages THEN JsFunction
    ELSE IF languageId = "python" THEN PyDef
    ELSE IF languageId \in CStyleLanguages THEN CFunction
    ELSE GenCall

\* a line no matcher takes for a function header
FillerOf(languageId) ==
    IF languageId = "python" THEN PyReturn
    ELSE IF languageId \in OtherLanguages THEN Prose
    ELSE Statement

\* one language tag of each of the four paths
Representatives ==
    {"javascript", "python", "c", "plaintext"}

\* every document of at most n lines
DocumentsUpTo(languageId, n) ==
    UNION {[1..m -> LinesOf(languageId)] : m \in 1..n}

\* filler lines only (header 0) or one header line among filler lines
PaddedDocuments(languageId) ==
    UNION {{[i \in 1..n |-> IF i = header THEN HeaderOf(languageId)
                            ELSE FillerOf(languageId)] : header \in 0..n} :
           n \in 1..MaxPaddedLines}

\* whole programs: a function followed by the empty last line of a text
\* that ends with a line break, and a function with a nested block
SampleDocuments(languageId) ==
    IF languageId \in JavaScriptLanguages
    THEN {<<JsFunction, Statement, CloseBrace, Blank>>,
          <<JsFunction, IfBlock, Statement, CloseBrace, CloseBrace>>}
    ELSE IF languageId = "python"
    THEN {<<PyDef, PyReturn, Blank, PyTop>>,
          <<PyDef, PyInnerDef, PyInnerReturn, PyReturn, PyTop>>}
    ELSE IF languageId \in CStyleLanguages
    THEN {<<CFunction, Statement, CloseBrace, Blank>>,
          <<CFunction, IfBlock, CloseBrace, CElseIf, CloseBrace, CloseBrace>>}
    ELSE {<<GenFunction, Statement, CloseBrace, Blank>>,
          <<GenFunction, IfBlock, Statement, CloseBrace, CloseBrace>>}

\* n times the line text
Repeated(text, n) ==
    [i \in 1..n |-> text]

\* doc comments: on one line, over several lines, and with a line inside
\* that begins like an opening line
DocBlocks ==
    {<<DocOneLine>>, <<DocOpen, DocNestedOpen, DocClose>>}
        \cup {<<DocOpen>> \o Repeated(DocText, n) \o <<DocClose>> :
              n \in 0..MaxDocTextLines}

\* what stands above a header: nothing, a doc comment, or what is no doc
\* comment (a line comment, a comment never opened, a comment never closed)
Preludes ==
    DocBlocks \cup {<< >>, <<LineComment>>, <<DocText, DocClose>>,
                    <<DocOpen, DocText>>}

\* a function with a prelude above it, blank lines between the two, and code
\* or nothing above the prelude
DocCommentDocuments(languageId) ==
    IF languageId = "python" THEN {}
    ELSE {above \o prelude \o Repeated(Blank, gap)
              \o <<IF languageId \in OtherLanguages THEN GenFunction
                   ELSE HeaderOf(languageId), Statement, CloseBrace>> :
          above \in {<< >>, <<Statement>>, <<CloseBrace, Blank>>},
          prelude \in Preludes, gap \in 0..MaxBlankLines}

\* what stands below a def line: no docstring, a docstring on one line, over
\* several lines or never closed, in either style of quotes, a docstring
\* below a blank line, one with the other style of quotes on a line inside
\* it, and one whose first line opens with one style and ends with the other
Docstrings ==
    {<< >>, <<PyDocOneLine>>, <<PyDocSingleOneLine>>,
     <<PyDocQuotes, PyDocText, PyDocQuotes>>,
     <<PyDocQuotes, PyDocQuotes>>,
     <<PyDocQuotes, PyDocText>>,
     <<PyDocSingleQuotes, PyDocText, PyDocSingleQuotes>>,
     <<Blank, PyDocOneLine>>,
     <<PyDocQuotes, PyDocText, PyDocSingleQuotes, PyDocText, PyDocQuotes>>,
     <<PyDocSingleQuotes, PyDocQuotes, PyDocText, PyDocSingleQuotes>>,
     <<PyDocMixed, PyDocText, PyDocQuotes>>}

\* a def line with a docstring below it
DocstringDocuments(languageId) ==
    IF languageId # "python" THEN {}
    ELSE {<<PyDef>> \o docstring \o below :
          docstring \in Docstrings,
          below \in {<<PyReturn>>, <<PyReturn, PyTop>>}}

\* the header lines a document of brace lines starts with: with the opening
\* brace, and with a whole block or no brace at all
HeadersOf(languageId) ==
    IF languageId \in JavaScriptLanguages THEN {JsFunction, JsOneLine}
    ELSE IF languageId \in CStyleLanguages THEN {CFunction, CThrows, CHeader}
    ELSE IF languageId \in OtherLanguages THEN {GenFunction, GenCall}
    ELSE {}

\* a header and below it any lines that open blocks, close them or do
\* neither, under one tag of each path
BraceDocuments(languageId) ==
    {<<header>> \o below :
     header \in IF languageId \in Representatives THEN HeadersOf(languageId)
                ELSE {},
     below \in UNION {[1..n -> {OpenBrace, CloseBrace, CloseOpen, Statement}] :
                      n \in 0..MaxBraceLines}}

\* TypeScript declarations with typed parameters and a return type, and a
\* line two of the JavaScript patterns read differently
TypedDocuments(languageId) ==
    IF languageId \in JavaScriptLanguages
    THEN {<<Blank, TsFunction, Statement, CloseBrace, Blank>>,
          <<TsCallback, Statement, CloseBrace>>,
          <<ArrowIf, Statement, CloseBrace, CloseBrace>>,
          <<JsFunction, ArrowIf, Statement, CloseBrace, CloseBrace,
            CloseBrace>>}
    ELSE {}

\* headers with the opening brace on a later line: on the fallback path a
\* call-shaped header, the brace two lines below it and text after the
\* closing brace; on the C-family path a function in that style, alone and
\* below a function with the brace on the header line
LateBraceDocuments(languageId) ==
    IF languageId \in OtherLanguages
    THEN {<<GenCall, Prose, OpenBrace, Statement, CloseBrace, Prose>>,
          <<Prose, GenCall, Statement, IfBlock, CloseOpen, CloseBrace,
            CloseBrace, Prose>>}
    ELSE IF languageId \in CStyleLanguages
    THEN {<<CHeader, OpenBrace, Statement, CloseBrace, Blank>>,
          <<CFunction, Statement, CloseBrace, CHeader, OpenBrace, Statement,
            CloseBrace>>}
    ELSE {}

\* the freely made documents are one line shorter under the tags that share
\* their path with a representative
Documents(languageId) ==
    DocumentsUpTo(languageId, IF languageId \in Representatives THEN MaxLines
                              ELSE MaxLines - 1)
        \cup PaddedDocuments(languageId)
        \cup SampleDocuments(languageId)
        \cup DocCommentDocuments(languageId)
        \cup DocstringDocuments(languageId)
        \cup BraceDocuments(languageId)
        \cup TypedDocuments(languageId)
        \cup LateBraceDocuments(languageId)

RepeatDocuments(languageId) ==
    DocumentsUpTo(languageId, MaxRepeatLines) \cup SampleDocuments(languageId)

(***************************************************************************)
(* State.                                                                  *)
(*   document, languageId  the open document and its language mode         *)
(*   position  the line of the cursor (textEditor.selection.active.line)   *)
(*   called    the line the last findFunctionAtPosition call was made at,  *)
(*             -1 before the first call                                    *)
(*   result    what that call returned                                     *)
(*   earlier   a call made before, kept to compare later calls with, and   *)
(*             the number of calls made since                              *)
(*   frame     where a call followed statement by statement stands: the    *)
(*             loop it is in, the line index of that loop and the locals   *)
(*   command   the documentation command in flight: where it stands, the   *)
(*             record it located and the text the model answered with      *)
(*   service   the OpenAIService: its client, and what its calls did       *)
(*   extractor the ContextExtractor call: the files of the workspace, the  *)
(*             set being filled and what was returned                      *)
(*   rag       the RAGSystem: its cache and the calls in flight            *)
(*   formatter the DocumentationProvider formatting call: input and output *)
(***************************************************************************)
VARIABLES document, languageId, position, called, result, earlier, frame,
          command, service, extractor, rag, formatter

\* the variables of the locator
parserVars == <<document, languageId, position, called, result, earlier, frame>>

\* the variables of the other components
componentVars == <<command, service, extractor, rag, formatter>>

vars == <<document, languageId, position, called, result, earlier, frame,
          command, service, extractor, rag, formatter>>

\* no command is in flight
NoCommand ==
    [pc |-> "idle"]

\* private openai: OpenAI | null = null, and no call made yet. A client is
\* written as the key it was made with. env is process.env.OPENAI_API_KEY
\* ("" when unset); succeeded, apiCalls, calls and last record what the calls
\* made so far did.
NewOpenAIService ==
    [openai |-> "null", env |-> "", succeeded |-> FALSE, apiCalls |-> 0,
     calls |-> 0, last |-> [op |-> "none"]]

\* no extractWorkspaceContext call was made
NoExtraction ==
    [pc |-> "idle"]

\* private projectContextCache = new Map(), and no call in flight
NewRAGSystem ==
    [projectContextCache |-> << >>, hasFolder |-> FALSE, workspace |-> {},
     failures |-> 0, calls |-> << >>]

\* no formatting call was made
NoFormatting ==
    [pc |-> "idle"]

\* the components as constructed, none of them called
Constructed ==
    /\ command = NoCommand
    /\ service = NewOpenAIService
    /\ extractor = NoExtraction
    /\ rag = NewRAGSystem
    /\ formatter = NoFormatting

\* no call was made
NoCall ==
    [kind |-> "none"]

\* the locals of a call: the loop the call is in (pc), the line index of
\* that loop (i), the last line of the upward search (low), and what the
\* call has put together so far
Frame(pc, i, low, startLine, endLine, braceCount, body, docLines, doc) ==
    [pc |-> pc, i |-> i, low |-> low, startLine |-> startLine,
     endLine |-> endLine, braceCount |-> braceCount, body |-> body,
     docLines |-> docLines, doc |-> doc]

\* no call is running
Idle ==
    Frame("idle", 0, 0, 0, 0, 0, << >>, << >>, Undefined)

Init ==
    /\ languageId \in LanguageIds
    /\ document \in Documents(languageId)
    /\ position \in 0..(Len(document) - 1)
    /\ called = -1
    /\ result = NoCall
    /\ earlier = NoCall
    /\ frame = Idle
    /\ Constructed

\* mutant of FindFunctionAtPosition: the parser keeps the record it returned
\* last and returns it again while the cursor is on a line of its span
FindFunctionAtPositionMemo ==
    /\ earlier.kind = "call" => earlier.calls < MaxCallsAfter
    /\ result' = IF /\ result.kind = "function"
                    /\ result.startLine <= position
                    /\ position <= result.endLine
                 THEN result
                 ELSE findFunctionAtPosition(document, languageId, position)
    /\ called' = position
    /\ earlier' = IF earlier.kind = "call"
                  THEN [earlier EXCEPT !.calls = @ + 1] ELSE earlier
    /\ UNCHANGED <<document, languageId, position, frame>>
    /\ UNCHANGED componentVars

\* a command calls codeParser.findFunctionAtPosition(document, selection.active)
FindFunctionAtPosition ==
    /\ earlier.kind = "call" => earlier.calls < MaxCallsAfter
    /\ result' = findFunctionAtPosition(document, languageId, position)
    /\ called' = position
    /\ earlier' = IF earlier.kind = "call"
                  THEN [earlier EXCEPT !.calls = @ + 1] ELSE earlier
    /\ UNCHANGED <<document, languageId, position, frame>>
    /\ UNCHANGED componentVars

Next ==
    FindFunctionAtPosition

\* one call on every document, language tag and cursor line
Spec ==
    Init /\ [][Next]_vars

InitRepeat ==
    /\ languageId \in LanguageIds
    /\ document \in RepeatDocuments(languageId)
    /\ position \in 0..(Len(document) - 1)
    /\ called = -1
    /\ result = NoCall
    /\ earlier = NoCall
    /\ frame = Idle
    /\ Constructed

\* the user moves the cursor one line up or down in the document
MoveCursor ==
    /\ \E line \in {position - 1, position + 1} :
          /\ line >= 0 /\ line < Len(document)
          /\ position' = line
    /\ UNCHANGED <<document, languageId, called, result, earlier, frame>>
    /\ UNCHANGED componentVars

\* the last call is kept for comparison
Remember ==
    /\ called # -1
    /\ earlier' = [kind |-> "call", text |-> getText(document),
                   languageId |-> languageId, line |-> called,
                   returned |-> result, calls |-> 0]
    /\ UNCHANGED <<document, languageId, position, called, result, frame>>
    /\ UNCHANGED componentVars

NextRepeat ==
    \/ FindFunctionAtPosition
    \/ MoveCursor
    \/ Remember

\* any sequence of calls on one CodeParser, the cursor moving between them
SpecRepeat ==
    InitRepeat /\ [][NextRepeat]_vars

(***************************************************************************)
(* One call followed loop iteration by loop iteration.  Every action below *)
(* is one pass through the body of a loop of codeParser.ts, or the         *)
(* statements between two loops; frame.i is the loop's line index.         *)
(***************************************************************************)
\* the lookback of the matcher a tag is routed to
LookbackOf(tag) ==
    IF tag \in JavaScriptLanguages THEN JavaScriptLookback
    ELSE IF tag = "python" THEN PythonLookback
    ELSE IF tag \in CStyleLanguages THEN CStyleLookback
    ELSE GenericLookback

\* const match = pattern.exec(lineText) and the group the name is read
\* from, on the path of the tag
MatchOf(tag, lineText) ==
    IF tag \in JavaScriptLanguages
    THEN LET p == FirstPattern(lineText, 1)
         IN  IF p = 0 THEN [ok |-> FALSE, name |-> << >>]
             ELSE [ok |-> TRUE,
                   name |-> Group(lineText,
                                  exec(functionPatternIds[p], lineText), 1)]
    ELSE LET id == IF tag = "python" THEN "python"
                   ELSE IF tag \in CStyleLanguages THEN "cstyle"
                   ELSE "generic"
             match == exec(id, lineText)
         IN  IF ~match.ok THEN [ok |-> FALSE, name |-> << >>]
             ELSE [ok |-> TRUE,
                   name |-> Group(lineText, match,
                                  IF id = "cstyle" THEN 4 ELSE 1)]

\* the loops that go up the buffer and the loops that go down
UpwardLoops ==
    {"signature", "skip", "walk"}

ForwardLoops ==
    {"open", "close", "indent", "quotes"}

\* findFunctionAtPosition is entered: document.lineAt(line), the switch, and
\* the head of the upward for loop of the matcher
Call ==
    /\ frame.pc = "idle"
    /\ called' = position
    /\ IF lineAtThrows(document, position)
       THEN /\ result' = Thrown
            /\ frame' = [frame EXCEPT !.pc = "returned"]
       ELSE /\ result' = result
            /\ frame' = [frame EXCEPT
                            !.pc = "signature", !.i = position,
                            !.low = LowestLine(position,
                                               LookbackOf(languageId))]
    /\ UNCHANGED <<document, languageId, position, earlier>>
    /\ UNCHANGED componentVars

\* the upward loop has passed its last line: return null
SignatureNotFound ==
    /\ frame.pc = "signature"
    /\ frame.i < frame.low
    /\ result' = Null
    /\ frame' = [frame EXCEPT !.pc = "returned"]
    /\ UNCHANGED <<document, languageId, position, called, earlier>>
    /\ UNCHANGED componentVars

\* a pass of the upward loop on a line no pattern matches: i--
SignatureMiss ==
    /\ frame.pc = "signature"
    /\ frame.i >= frame.low
    /\ ~MatchOf(languageId, document[frame.i + 1]).ok
    /\ frame' = [frame EXCEPT !.i = @ - 1]
    /\ UNCHANGED <<document, languageId, position, called, result, earlier>>
    /\ UNCHANGED componentVars

\* a pass of the upward loop on a line a pattern matches: the line is the
\* header; on the Python path the indentation loop is entered, elsewhere
\* findFunctionBody, which counts the `{` of the header line
SignatureMatch ==
    /\ frame.pc = "signature"
    /\ frame.i >= frame.low
    /\ MatchOf(languageId, document[frame.i + 1]).ok
    /\ LET lineText == document[frame.i + 1]
       IN  frame' =
             IF languageId = "python"
             THEN [frame EXCEPT !.pc = "indent", !.i = frame.i + 1,
                                !.startLine = frame.i, !.endLine = frame.i,
                                !.body = << >>]
             ELSE [frame EXCEPT
                      !.pc = IF CountOpen(lineText) = 0 THEN "open"
                             ELSE "close",
                      !.i = frame.i + 1,
                      !.startLine = frame.i, !.endLine = frame.i,
                      !.braceCount = CountOpen(lineText),
                      !.body = lineText \o <<"\n">>]
    /\ UNCHANGED <<document, languageId, position, called, result, earlier>>
    /\ UNCHANGED componentVars

\* findFunctionBody, a pass of the loop that looks for the first `{`
SeekOpen ==
    /\ frame.pc = "open"
    /\ LET lines == Split(getText(document))
       IN  frame' =
             IF frame.i >= Len(lines)
             THEN [frame EXCEPT !.pc = "close", !.i = frame.endLine + 1]
             ELSE LET currentLine == lines[frame.i + 1]
                  IN  IF Includes(currentLine, "{")
                      THEN [frame EXCEPT
                               !.pc = "close", !.i = frame.i + 1,
                               !.endLine = frame.i,
                               !.braceCount = CountOpen(currentLine),
                               !.body = @ \o currentLine \o <<"\n">>]
                      ELSE [frame EXCEPT
                               !.i = frame.i + 1, !.endLine = frame.i,
                               !.body = @ \o currentLine \o <<"\n">>]
    /\ UNCHANGED <<document, languageId, position, called, result, earlier>>
    /\ UNCHANGED componentVars

\* findFunctionBody, a pass of the loop that looks for the closing brace;
\* when the loop ends findExistingDocumentation is entered
SeekClose ==
    /\ frame.pc = "close"
    /\ LET lines == Split(getText(document))
       IN  frame' =
             IF frame.i < Len(lines) /\ frame.braceCount > 0
             THEN LET currentLine == lines[frame.i + 1]
                  IN  [frame EXCEPT
                          !.i = frame.i + 1, !.endLine = frame.i,
                          !.braceCount = ScanBraces(currentLine, 0, @),
                          !.body = @ \o currentLine \o <<"\n">>]
             ELSE [frame EXCEPT !.pc = "skip", !.i = frame.startLine - 1,
                                !.docLines = << >>]
    /\ UNCHANGED <<document, languageId, position, called, result, earlier>>
    /\ UNCHANGED componentVars

\* findExistingDocumentation, a pass of the loop that skips empty lines, and
\* the tests below the loop
SkipEmpty ==
    /\ frame.pc = "skip"
    /\ LET lines == Split(getText(document))
       IN  frame' =
             IF frame.i >= 0 /\ Trim(lines[frame.i + 1]) = << >>
             THEN [frame EXCEPT !.i = @ - 1]
             ELSE IF frame.i < 0
             THEN [frame EXCEPT !.pc = "return", !.doc = Undefined]
             ELSE IF EndsWith(Trim(lines[frame.i + 1]), <<"*", "/">>)
             THEN [frame EXCEPT !.pc = "walk"]
             ELSE [frame EXCEPT !.pc = "return", !.doc = Undefined]
    /\ UNCHANGED <<document, languageId, position, called, result, earlier>>
    /\ UNCHANGED componentVars

\* mutant of WalkDoc: startLine-- is missing at the end of the loop body
WalkDocStuck ==
    /\ frame.pc = "walk"
    /\ LET lines == Split(getText(document))
       IN  frame' =
             IF frame.i < 0
             THEN [frame EXCEPT !.pc = "return", !.doc = Undefined]
             ELSE LET collected == <<lines[frame.i + 1]>> \o frame.docLines
                  IN  IF StartsWith(Trim(lines[frame.i + 1]),
                                    <<"/", "*", "*">>)
                      THEN [frame EXCEPT
                               !.pc = "return", !.docLines = collected,
                               !.doc = Defined(Join(collected, <<"\n">>))]
                      ELSE [frame EXCEPT !.docLines = collected]
    /\ UNCHANGED <<document, languageId, position, called, result, earlier>>
    /\ UNCHANGED componentVars

\* findExistingDocumentation, a pass of the loop that walks up the comment
WalkDoc ==
    /\ frame.pc = "walk"
    /\ LET lines == Split(getText(document))
       IN  frame' =
             IF frame.i < 0
             THEN [frame EXCEPT !.pc = "return", !.doc = Undefined]
             ELSE LET collected == <<lines[frame.i + 1]>> \o frame.docLines
                  IN  IF StartsWith(Trim(lines[frame.i + 1]),
                                    <<"/", "*", "*">>)
                      THEN [frame EXCEPT
                               !.pc = "return", !.docLines = collected,
                               !.doc = Defined(Join(collected, <<"\n">>))]
                      ELSE [frame EXCEPT !.i = @ - 1,
                                         !.docLines = collected]
    /\ UNCHANGED <<document, languageId, position, called, result, earlier>>
    /\ UNCHANGED componentVars

\* findPythonFunction, a pass of the loop over the lines below the def line;
\* when the loop ends findPythonDocstring is entered
Indent ==
    /\ frame.pc = "indent"
    /\ LET lines == Split(getText(document))
           defIndent == SearchNonSpace(lines[frame.startLine + 1])
       IN  frame' =
             IF frame.i >= Len(lines)
             THEN [frame EXCEPT !.pc = "docstring"]
             ELSE LET bodyLine == lines[frame.i + 1]
                      lineIndent == SearchNonSpace(bodyLine)
                      taken == [frame EXCEPT
                                   !.i = frame.i + 1, !.endLine = frame.i,
                                   !.body = @ \o bodyLine \o <<"\n">>]
                  IN  IF Trim(bodyLine) = << >> THEN taken
                      ELSE IF lineIndent <= defIndent /\ lineIndent # -1
                      THEN [frame EXCEPT !.pc = "docstring"]
                      ELSE taken
    /\ UNCHANGED <<document, languageId, position, called, result, earlier>>
    /\ UNCHANGED componentVars

\* findPythonDocstring up to its loop: the line below the def line
Docstring ==
    /\ frame.pc = "docstring"
    /\ LET lines == Split(getText(document))
           functionLine == frame.startLine
           double == <<"\"", "\"", "\"">>
           single == <<"'", "'", "'">>
       IN  frame' =
             IF functionLine + 1 < Len(lines)
             THEN LET nextLine == Trim(lines[functionLine + 2])
                  IN  IF StartsWith(nextLine, double)
                         \/ StartsWith(nextLine, single)
                      THEN IF /\ ~(EndsWith(nextLine, double)
                                     /\ Len(nextLine) > 3)
                              /\ ~(EndsWith(nextLine, single)
                                     /\ Len(nextLine) > 3)
                           THEN [frame EXCEPT
                                    !.pc = "quotes", !.i = functionLine + 2,
                                    !.docLines = <<lines[functionLine + 2]>>]
                           ELSE [frame EXCEPT
                                    !.pc = "return",
                                    !.doc = Defined(lines[functionLine + 2])]
                      ELSE [frame EXCEPT !.pc = "return", !.doc = Undefined]
             ELSE [frame EXCEPT !.pc = "return", !.doc = Undefined]
    /\ UNCHANGED <<document, languageId, position, called, result, earlier>>
    /\ UNCHANGED componentVars

\* findPythonDocstring, a pass of the loop that looks for the closing quotes
Quotes ==
    /\ frame.pc = "quotes"
    /\ LET lines == Split(getText(document))
           opening == Trim(lines[frame.startLine + 2])
           quoteType == IF StartsWith(opening, <<"\"", "\"", "\"">>)
                        THEN <<"\"", "\"", "\"">> ELSE <<"'", "'", "'">>
       IN  frame' =
             IF frame.i >= Len(lines)
             THEN [frame EXCEPT
                      !.pc = "return",
                      !.doc = Defined(Join(frame.docLines, <<"\n">>))]
             ELSE LET collected == Append(frame.docLines, lines[frame.i + 1])
                  IN  IF EndsWith(Trim(lines[frame.i + 1]), quoteType)
                      THEN [frame EXCEPT
                               !.pc = "return", !.docLines = collected,
                               !.doc = Defined(Join(collected, <<"\n">>))]
                      ELSE [frame EXCEPT !.i = @ + 1,
                                         !.docLines = collected]
    /\ UNCHANGED <<document, languageId, position, called, result, earlier>>
    /\ UNCHANGED componentVars

\* return { name, signature, body, startLine, endLine, language, ... }
Return ==
    /\ frame.pc = "return"
    /\ LET lineText == document[frame.startLine + 1]
       IN  result' = FunctionInfo(MatchOf(languageId, lineText).name,
                                  Trim(lineText), frame.body, frame.startLine,
                                  frame.endLine,
                                  IF languageId = "python" THEN "python"
                                  ELSE languageId,
                                  frame.doc)
    /\ frame' = [frame EXCEPT !.pc = "returned"]
    /\ UNCHANGED <<document, languageId, position, called, earlier>>
    /\ UNCHANGED componentVars

\* the documents a call is followed on
StepDocuments(tag) ==
    DocumentsUpTo(tag, MaxRepeatLines) \cup SampleDocuments(tag)
        \cup DocCommentDocuments(tag) \cup DocstringDocuments(tag)
        \cup TypedDocuments(tag) \cup LateBraceDocuments(tag)

InitSteps ==
    /\ languageId \in LanguageIds
    /\ document \in StepDocuments(languageId)
    /\ position \in 0..(Len(document) - 1)
    /\ called = -1
    /\ result = NoCall
    /\ earlier = NoCall
    /\ frame = Idle
    /\ Constructed

NextSteps ==
    \/ Call
    \/ SignatureNotFound
    \/ SignatureMiss
    \/ SignatureMatch
    \/ SeekOpen
    \/ SeekClose
    \/ SkipEmpty
    \/ WalkDoc
    \/ Indent
    \/ Docstring
    \/ Quotes
    \/ Return

\* one call, statement by statement; the code is sequential and nothing
\* preempts it, so a step that can be taken is taken
SpecSteps ==
    InitSteps /\ [][NextSteps]_vars /\ WF_vars(NextSteps)

\* followed step by step, a call returns what findFunctionAtPosition gives
StepsAgree ==
    frame.pc = "returned" =>
        result = findFunctionAtPosition(document, languageId, called)

(***************************************************************************)
(* What the documents mean, for stating the properties: the structure a    *)
(* reader of the program sees, told without the patterns and scans above.  *)
(***************************************************************************)
\* the lines that open a function in the language they are written in
OpensFunction(text) ==
    text \in {JsFunction, CFunction, GenFunction}

\* how often character ch occurs in lines a..b (0-based) of document d
Occurrences(d, a, b, ch) ==
    Cardinality({at \in UNION {{<<k, i>> : i \in 1..Len(d[k + 1])} : k \in a..b} :
                    d[at[1] + 1][at[2]] = ch})

\* the nesting depth after line b, counted from the start of line a
Depth(d, a, b) ==
    Occurrences(d, a, b, "{") - Occurrences(d, a, b, "}")

\* balanced braces: never more closed than opened, all closed at the end
WellFormed(d) ==
    /\ \A b \in 0..(Len(d) - 1) : Depth(d, 0, b) >= 0
    /\ Depth(d, 0, Len(d) - 1) = 0

\* the line holding the brace that closes the block opened on line h
ClosingLine(d, h) ==
    CHOOSE j \in h..(Len(d) - 1) :
        /\ Depth(d, h, j) = 0
        /\ \A k \in h..(j - 1) : Depth(d, h, k) # 0

\* the header lines of the functions line c lies strictly inside of
EnclosingFunctions(d, c) ==
    {h \in 0..(c - 1) : /\ OpensFunction(d[h + 1])
                        /\ c < ClosingLine(d, h)}

\* the header lines of the functions line c belongs to, header and closing
\* line included
FunctionsAround(d, c) ==
    {h \in 0..c : OpensFunction(d[h + 1]) /\ c <= ClosingLine(d, h)}

Greatest(S) ==
    CHOOSE x \in S : \A y \in S : y <= x

Least(S) ==
    CHOOSE x \in S : \A y \in S : x <= y

\* the text of lines a..b (0-based) of d, each followed by a line break
RECURSIVE TextOfLines(_, _, _)
TextOfLines(d, a, b) ==
    IF a > b THEN << >>
    ELSE d[a + 1] \o <<"\n">> \o TextOfLines(d, a + 1, b)

\* the number of leading blanks of a line
Indentation(text) ==
    Cardinality({i \in 1..Len(text) : \A j \in 1..i : text[j] = " "})

IsBlankLine(text) ==
    \A i \in 1..Len(text) : text[i] \in Space

\* a line holds an identifier, optional blanks and a parenthesized group
HasCallShape(text) ==
    \E a \in 1..Len(text) :
        /\ text[a] = "("
        /\ \E b \in (a + 1)..Len(text) : text[b] = ")"
        /\ LET before == {i \in 1..(a - 1) : text[i] \notin Space}
           IN  before # {} /\ text[Greatest(before)] \in Word

\* the line matches a signature pattern of the matcher the tag is routed to
SignatureLine(tag, text) ==
    IF tag \in JavaScriptLanguages
    THEN \E p \in 1..Len(functionPatternIds) :
            exec(functionPatternIds[p], text).ok
    ELSE IF tag = "python" THEN exec("python", text).ok
    ELSE IF tag \in CStyleLanguages THEN exec("cstyle", text).ok
    ELSE exec("generic", text).ok

\* the lines of the lookback window of width w that match, for a call at
\* line c
SignatureLinesInWindow(d, tag, c, w) ==
    {i \in 0..c : c - i <= w /\ SignatureLine(tag, d[i + 1])}

(***************************************************************************)
(* The claims.                                                             *)
(***************************************************************************)

\* C1 (as claimed; the code violates it): with the cursor strictly inside a
\* well-formed brace-delimited function, in a brace language,
\* findFunctionAtPosition returns that function: startLine is its header
\* line and endLine the line of its matching closing brace.
C1_EnclosingFunctionReturned ==
    (/\ called # -1
     /\ languageId \in JavaScriptLanguages \cup CStyleLanguages
     /\ WellFormed(document)
     /\ EnclosingFunctions(document, called) # {})
    => LET h == Greatest(EnclosingFunctions(document, called))
       IN  /\ result.kind = "function"
           /\ result.startLine = h
           /\ result.endLine = ClosingLine(document, h)

\* the text `def add(a, b):\n    return a + b\n`
PythonScenarioText ==
    PyDef \o <<"\n">> \o PyReturn \o <<"\n">>

PythonScenario ==
    /\ languageId = "python"
    /\ getText(document) = PythonScenarioText
    /\ called = 1

\* C2 (as claimed; violated): on the Python scenario the call returns name
\* "add", startLine 0 and endLine 1.
C2_PythonScenarioEndsAtLine1 ==
    PythonScenario =>
        /\ result.kind = "function"
        /\ result.name = <<"a", "d", "d">>
        /\ result.startLine = 0
        /\ result.endLine = 1

\* C2 (amended): on the Python scenario the call returns name "add",
\* startLine 0 and endLine 2: the empty piece after the final line break is
\* a blank line, and blank lines below the header are lines of the function.
C2_PythonScenarioEndsAtLine2 ==
    PythonScenario =>
        /\ result.kind = "function"
        /\ result.name = <<"a", "d", "d">>
        /\ result.startLine = 0
        /\ result.endLine = 2

C2_Witness ==
    /\ PythonScenario
    /\ result.kind = "function"
    /\ Len(document) = 3
    /\ document[3] = Blank

\* C3 (as claimed; the code violates it): on every path the body of a
\* returned record is the text of lines startLine..endLine, each followed by
\* a line break, so it begins with the header line.
C3_BodyIsTheSpan ==
    result.kind = "function" =>
        result.body = TextOfLines(document, result.startLine, result.endLine)

\* the text `function add(a, b) {\n  return a + b;\n}\n`
JavaScriptScenarioText ==
    JsFunction \o <<"\n">> \o Statement \o <<"\n">> \o CloseBrace \o <<"\n">>

JavaScriptScenario ==
    /\ languageId = "javascript"
    /\ getText(document) = JavaScriptScenarioText
    /\ called = 1

\* C4: on the JavaScript scenario (cursor line 1) the call returns name
\* "add", startLine 0, endLine 2 and a body equal to the three lines, each
\* ended by a line break.
C4_JavaScriptScenario ==
    JavaScriptScenario =>
        /\ result.kind = "function"
        /\ result.name = <<"a", "d", "d">>
        /\ result.startLine = 0
        /\ result.endLine = 2
        /\ result.body = JavaScriptScenarioText

C4_Witness ==
    /\ JavaScriptScenario
    /\ result.kind = "function"
    /\ Len(document) = 4

\* the non-blank lines below line h indented no more than line h
PythonTerminators(d, h) ==
    {j \in (h + 1)..(Len(d) - 1) :
        /\ ~IsBlankLine(d[j + 1])
        /\ Indentation(d[j + 1]) <= Indentation(d[h + 1])}

\* C5: the span the Python path returns ends on the line before the first
\* non-blank line below the header that is indented no more than the header;
\* that line is outside the span and every line between, blank or not, inside.
C5_PythonSpanEndsBeforeDedent ==
    (/\ languageId = "python"
     /\ result.kind = "function"
     /\ PythonTerminators(document, result.startLine) # {})
    => result.endLine = Least(PythonTerminators(document, result.startLine)) - 1

\* a blank line lies between the header and the line that ends the function
C5_Witness ==
    /\ languageId = "python"
    /\ result.kind = "function"
    /\ PythonTerminators(document, result.startLine) # {}
    /\ result.endLine > result.startLine
    /\ IsBlankLine(document[result.endLine + 1])

\* the cursor line belongs to no function of a well-formed brace document
OutsideEveryFunction(d, c) ==
    /\ WellFormed(d)
    /\ FunctionsAround(d, c) = {}

\* C6 (as claimed; the code violates it): a returned record encloses the
\* cursor line, and a cursor line outside every function yields not-found.
C6_OnlyEnclosingFunction ==
    /\ result.kind = "function" =>
          result.startLine <= called /\ called <= result.endLine
    /\ (/\ called # -1
        /\ languageId \in JavaScriptLanguages \cup CStyleLanguages
        /\ OutsideEveryFunction(document, called)) => result = Null

\* the width of the lookback window the claims state for a language tag
ClaimedLookback(tag) ==
    IF tag \in JavaScriptLanguages \cup {"python"} \cup CStyleLanguages
    THEN 10 ELSE 5

\* C7: the lines looked at are max(0, cursor - W)..cursor with W = 10 (5 on
\* the fallback path); startLine is the greatest line of that window that
\* matches a signature pattern of the path, and the result is not-found
\* when no line of the window matches.
C7_LookbackWindow ==
    called # -1 =>
        LET matching == SignatureLinesInWindow(document, languageId, called,
                                               ClaimedLookback(languageId))
        IN  IF matching = {} THEN result = Null
            ELSE /\ result.kind = "function"
                 /\ result.startLine = Greatest(matching)

\* the header lies exactly W lines above the cursor and is found
C7_Witness ==
    /\ result.kind = "function"
    /\ called - result.startLine = ClaimedLookback(languageId)
    /\ languageId = "python"

C9_NotFoundIsNull ==
    called # -1 =>
        /\ SignatureLinesInWindow(document, languageId, called,
                                  ClaimedLookback(languageId)) = {}
              => (result # Thrown /\ result = Null)
        /\ (\A i \in 1..Len(document) : document[i] = Prose) => result = Null

C9_Witness ==
    /\ called # -1
    /\ \A i \in 1..Len(document) : document[i] = Prose
    /\ Len(document) > 1
    /\ languageId = "plaintext"
    /\ result = Null

\* the lines of the 5-line lookback window that hold an identifier followed
\* by a parenthesized group
CallShapedLines(d, c) ==
    {i \in 0..c : c - i <= 5 /\ HasCallShape(d[i + 1])}

\* C10: for a tag outside the nine named ones, when a line of the 5-line
\* lookback window holds an identifier followed by a parenthesized group the
\* call returns a record starting at that line (the nearest one to the
\* cursor), braces or no braces below it.
C10_FallbackAlwaysAnswers ==
    (/\ called # -1
     /\ languageId \notin
            JavaScriptLanguages \cup {"python"} \cup CStyleLanguages
     /\ CallShapedLines(document, called) # {})
    => /\ result.kind = "function"
       /\ result.startLine = Greatest(CallShapedLines(document, called))

\* no brace anywhere in the document, the call-shaped line at the window edge
C10_Witness ==
    /\ languageId = "plaintext"
    /\ result.kind = "function"
    /\ called - result.startLine = 5
    /\ Occurrences(document, 0, Len(document) - 1, "{") = 0
    /\ result.endLine = Len(document) - 1

\* the piece occurs in the text
Holds(text, piece) ==
    \E i \in 1..(Len(text) - Len(piece) + 1) :
        SubSeq(text, i, i + Len(piece) - 1) = piece

\* the text, its leading blanks aside, begins with the piece
BeginsWith(text, piece) ==
    \E k \in 0..(Len(text) - Len(piece)) :
        /\ \A i \in 1..k : text[i] \in Space
        /\ SubSeq(text, k + 1, k + Len(piece)) = piece

\* the text, its trailing blanks aside, ends with the piece
FinishesWith(text, piece) ==
    \E k \in Len(piece)..Len(text) :
        /\ \A i \in (k + 1)..Len(text) : text[i] \in Space
        /\ SubSeq(text, k - Len(piece) + 1, k) = piece

\* the lines a..b (0-based) of d with a line break between them
LinesJoined(d, a, b) ==
    LET text == TextOfLines(d, a, b) IN SubSeq(text, 1, Len(text) - 1)

\* the doc comments <<opener, closer>> that stand above header line h, only
\* blank lines between closer and h: the closer ends with `*/`, and the
\* comment it closes opened on the first line beginning with `/**` after the
\* line on which an earlier comment closed
DocBlocksAbove(d, h) ==
    {b \in (0..(h - 1)) \X (0..(h - 1)) :
        LET o == b[1]
            c == b[2]
            closedBefore == {i \in 0..(c - 1) : Holds(d[i + 1], <<"*", "/">>)}
            from == IF closedBefore = {} THEN 0 ELSE Greatest(closedBefore) + 1
        IN  /\ o <= c
            /\ \A i \in (c + 1)..(h - 1) : IsBlankLine(d[i + 1])
            /\ FinishesWith(d[c + 1], <<"*", "/">>)
            /\ BeginsWith(d[o + 1], <<"/", "*", "*">>)
            /\ from <= o
            /\ \A i \in from..(o - 1) : ~BeginsWith(d[i + 1], <<"/", "*", "*">>)}

Stripped(text) ==
    LET inked == {i \in 1..Len(text) : text[i] \notin Space}
    IN  IF inked = {} THEN << >>
        ELSE SubSeq(text, Least(inked), Greatest(inked))

\* C12: every record lies in the buffer, 0 <= startLine <= endLine <= index of
\* the last line, and startLine is the line the signature was matched on: the
\* line matches a pattern of the path and the signature is its text.
C12_SpanWithinBuffer ==
    result.kind = "function" =>
        /\ 0 <= result.startLine
        /\ result.startLine <= result.endLine
        /\ result.endLine <= Len(document) - 1
        /\ SignatureLine(languageId, document[result.startLine + 1])
        /\ result.signature = Stripped(document[result.startLine + 1])

\* a record of a function that never closes, below the first line: its span
\* runs to the last line of the buffer
C12_Witness ==
    /\ result.kind = "function"
    /\ 0 < result.startLine
    /\ result.startLine < result.endLine
    /\ result.endLine = Len(document) - 1
    /\ Depth(document, result.startLine, result.endLine) > 0

\* C13: the record is the one of the matcher the tag is routed to: the JS/TS
\* matcher for javascript, typescript, javascriptreact and typescriptreact,
\* the indentation matcher for python, the C-family matcher for java, csharp,
\* cpp and c, the fallback for every other tag; its language is the tag.
C13_RoutedByLanguage ==
    called # -1 =>
        /\ result =
             CASE languageId \in {"javascript", "typescript",
                                  "javascriptreact", "typescriptreact"} ->
                      findJavaScriptFunction(document, languageId, called)
               [] languageId = "python" ->
                      findPythonFunction(document, called)
               [] languageId \in {"java", "csharp", "cpp", "c"} ->
                      findCStyleFunction(document, languageId, called)
               [] OTHER ->
                      findGenericFunction(document, languageId, called)
        /\ result.kind = "function" => result.language = languageId

\* a C-family tag on a document the fallback finds nothing in and the JS/TS
\* matcher reads differently: the header is more than 5 lines above the cursor
C13_Witness ==
    /\ languageId = "cpp"
    /\ result.kind = "function"
    /\ result.language = "cpp"
    /\ called - result.startLine > 5
    /\ findGenericFunction(document, languageId, called) = Null

\* a function declaration with typed parameters and a return type, the
\* opening brace on its line: `function name(p: T, ...): R {`
TypedDeclaration(text) ==
    /\ Len(text) > 9
    /\ SubSeq(text, 1, 9) = <<"f", "u", "n", "c", "t", "i", "o", "n", " ">>
    /\ Holds(text, <<":", " ">>)
    /\ Holds(text, <<")", ":", " ">>)
    /\ FinishesWith(text, <<" ", "{">>)

\* the identifier a declaration declares: what stands between `function `
\* and the parameter list
DeclaredName(text) ==
    SubSeq(text, 10, Least({i \in 1..Len(text) : text[i] = "("}) - 1)

\* the typed declarations with line c in their body, within the lookback
\* window, no brace between the header line and line c
TypedDeclarationsAbove(d, c) ==
    {h \in 0..(c - 1) :
        /\ TypedDeclaration(d[h + 1])
        /\ c - h <= 10
        /\ Occurrences(d, h + 1, c, "{") = 0
        /\ Occurrences(d, h + 1, c, "}") = 0}

\* C14 (as claimed; the code violates it): on the JS/TS path, with the cursor
\* on a body line of a typed function declaration within the lookback
\* window, the record's name is the declared identifier.
C14_TypedDeclarationNamed ==
    (called # -1 /\ languageId \in JavaScriptLanguages) =>
        \A h \in TypedDeclarationsAbove(document, called) :
            /\ result.kind = "function"
            /\ result.name = DeclaredName(document[h + 1])

\* how often character ch occurs among the first k characters of a line
OccurrencesInLine(text, k, ch) ==
    Cardinality({i \in 1..k : text[i] = ch})

\* the nesting depth after the first k characters of line e, counted from
\* the start of line h: every `{` before adds one, every `}` takes one off
RunningDepth(d, h, e, k) ==
    (IF e > h THEN Depth(d, h, e - 1) ELSE 0)
        + OccurrencesInLine(d[e + 1], k, "{")
        - OccurrencesInLine(d[e + 1], k, "}")

\* the lines at or after h on which a `}` brings the depth counted from the
\* start of line h back to zero
LinesClosing(d, h) ==
    {e \in h..(Len(d) - 1) :
        \E k \in 1..Len(d[e + 1]) :
            /\ d[e + 1][k] = "}"
            /\ RunningDepth(d, h, e, k) = 0}

\* C16 (as claimed; the code violates it): on the brace paths endLine is the
\* first line, at or after the header line, on which the depth counted from
\* the start of the header line returns to zero; a header line that holds the
\* opening brace and its closing brace is itself endLine.
C16_EndsWhereDepthReturnsToZero ==
    (result.kind = "function" /\ languageId # "python") =>
        LET closing == LinesClosing(document, result.startLine)
        IN  closing # {} => result.endLine = Least(closing)

\* the depth counted from the start of line h is positive after every
\* character from the first `{` on (it changes at braces only): the block
\* never closes in the buffer
NeverCloses(d, h) ==
    \A e \in h..(Len(d) - 1) :
        \A k \in {j \in 1..Len(d[e + 1]) : d[e + 1][j] \in {"{", "}"}} :
            (Occurrences(d, h, e - 1, "{")
                + OccurrencesInLine(d[e + 1], k, "{") > 0)
                => RunningDepth(d, h, e, k) > 0

\* C17: on the brace paths no call raises an error, and a record whose
\* braces never return to depth zero before the end of the buffer has the
\* last line of the buffer as endLine and the lines from the header line to
\* the end of the buffer as body.
C17_UnclosedRunsToEndOfBuffer ==
    (called # -1 /\ languageId # "python") =>
        /\ result.kind # "thrown"
        /\ (result.kind = "function"
              /\ NeverCloses(document, result.startLine)) =>
                /\ result.endLine = Len(document) - 1
                /\ result.body = TextOfLines(document, result.startLine,
                                             Len(document) - 1)

\* a block that is opened, holds a closing brace of an inner block and is
\* not closed when the buffer ends
C17_Witness ==
    /\ result.kind = "function"
    /\ languageId # "python"
    /\ NeverCloses(document, result.startLine)
    /\ Occurrences(document, result.startLine, Len(document) - 1, "}") > 0
    /\ result.endLine = Len(document) - 1
    /\ result.endLine > result.startLine + 1

\* the depth after the first k characters of line e when the count starts
\* with the number of `{` on line b and goes on over the lines after b
DepthFrom(d, b, e, k) ==
    OccurrencesInLine(d[b + 1], Len(d[b + 1]), "{")
        + (IF e > b + 1
           THEN Occurrences(d, b + 1, e - 1, "{")
                    - Occurrences(d, b + 1, e - 1, "}")
           ELSE 0)
        + OccurrencesInLine(d[e + 1], k, "{")
        - OccurrencesInLine(d[e + 1], k, "}")

\* the lines after b on which that depth reaches zero
LinesClosingFrom(d, b) ==
    {e \in (b + 1)..(Len(d) - 1) :
        \E k \in 1..Len(d[e + 1]) : DepthFrom(d, b, e, k) = 0}

\* the lines below line h that hold a `{`
BraceLinesBelow(d, h) ==
    {e \in (h + 1)..(Len(d) - 1) : Holds(d[e + 1], <<"{">>)}

\* C18: a header line without `{` is followed in the body by every line down
\* to the first line holding a `{`; the depth count starts with the number of
\* `{` on that line and the scan for depth zero is applied to the lines after
\* it; the body is the unbroken run of lines from the header to endLine.
C18_BraceOnLaterLine ==
    (/\ result.kind = "function"
     /\ languageId # "python"
     /\ ~Holds(document[result.startLine + 1], <<"{">>)
     /\ BraceLinesBelow(document, result.startLine) # {}) =>
        LET b == Least(BraceLinesBelow(document, result.startLine))
            closing == LinesClosingFrom(document, b)
        IN  /\ result.endLine >= b
            /\ result.endLine = IF closing = {} THEN Len(document) - 1
                                ELSE Least(closing)
            /\ result.body = TextOfLines(document, result.startLine,
                                         result.endLine)

\* a header without brace, a line between it and the line of the opening
\* brace, and the closing brace before the end of the buffer
C18_Witness ==
    /\ result.kind = "function"
    /\ ~Holds(document[result.startLine + 1], <<"{">>)
    /\ BraceLinesBelow(document, result.startLine) # {}
    /\ Least(BraceLinesBelow(document, result.startLine)) > result.startLine + 1
    /\ result.endLine > Least(BraceLinesBelow(document, result.startLine))
    /\ result.endLine < Len(document) - 1

\* what may follow the parameter list of a C-family header: nothing (the
\* brace is on a following line), the brace, a throws clause, or both
AfterParameters ==
    {<< >>, <<" ", "{">>,
     <<" ", "t", "h", "r", "o", "w", "s", " ", "E">>,
     <<" ", "t", "h", "r", "o", "w", "s", " ", "E", " ", "{">>}

\* the places <<blank, open, close>> that cut a line into a return-type
\* token, a blank, an identifier, a parenthesized parameter list and what
\* may follow it
HeaderCuts(text) ==
    {c \in {i \in 1..Len(text) : text[i] = " "}
               \X {i \in 1..Len(text) : text[i] = "("}
               \X {i \in 1..Len(text) : text[i] = ")"} :
        /\ 1 < c[1] /\ c[1] + 1 < c[2] /\ c[2] < c[3]
        /\ text[c[1]] = " " /\ text[c[2]] = "(" /\ text[c[3]] = ")"
        /\ \A i \in 1..(c[1] - 1) : text[i] \in TypeChar
        /\ \A i \in (c[1] + 1)..(c[2] - 1) : text[i] \in Word
        /\ \A i \in (c[2] + 1)..(c[3] - 1) : text[i] # ")"
        /\ SubSeq(text, c[3] + 1, Len(text)) \in AfterParameters}

\* C19 (as claimed; the code violates it): on the C-family path a cursor
\* line made of a return-type token, an identifier, a parameter list and an
\* optional throws clause is taken for the header whether or not the opening
\* brace is on it, and the name is the identifier before the parameter list.
C19_HeaderWithOrWithoutBrace ==
    (called # -1 /\ languageId \in CStyleLanguages) =>
        \A c \in HeaderCuts(document[called + 1]) :
            /\ result.kind = "function"
            /\ result.startLine = called
            /\ result.name = SubSeq(document[called + 1], c[1] + 1, c[2] - 1)

\* C19 (amended): on the C-family path such a line is taken for the header
\* only when the opening brace is on it, and the name is then the identifier
\* before the parameter list; the same line without the brace (brace on a
\* following line) does not match, it is never the startLine of a record.
C19_HeaderNeedsBrace ==
    (called # -1 /\ languageId \in CStyleLanguages) =>
        /\ \A c \in HeaderCuts(document[called + 1]) :
              IF Holds(document[called + 1], <<"{">>)
              THEN /\ result.kind = "function"
                   /\ result.startLine = called
                   /\ result.name = SubSeq(document[called + 1],
                                           c[1] + 1, c[2] - 1)
              ELSE ~(result.kind = "function" /\ result.startLine = called)
        /\ result.kind = "function" =>
              Holds(document[result.startLine + 1], <<"{">>)

\* the cursor on a header whose brace is on the following line: the record
\* is the function above it, whose header holds the brace
C19_Witness ==
    /\ called # -1
    /\ languageId \in CStyleLanguages
    /\ HeaderCuts(document[called + 1]) # {}
    /\ ~Holds(document[called + 1], <<"{">>)
    /\ result.kind = "function"
    /\ result.startLine < called
    /\ HeaderCuts(document[result.startLine + 1]) # {}

\* the order the claim gives the four JS/TS patterns
ClaimedOrder ==
    <<"function", "arrow", "method", "classMethod">>

\* the places in that order of the patterns that match a line
PatternsMatching(text) ==
    {p \in 1..Len(ClaimedOrder) : exec(ClaimedOrder[p], text).ok}

\* the lines of the JS/TS lookback window some pattern matches
CandidateLines(d, c) ==
    {i \in 0..c : c - i <= 10 /\ PatternsMatching(d[i + 1]) # {}}

\* what the pattern at place p of the order captures as the name
NameBy(text, p) ==
    Group(text, exec(ClaimedOrder[p], text), 1)

\* C20: on the JS/TS path the record is taken from the candidate line nearest
\* to the cursor, lines farther up are not looked at, and its name is what
\* the first pattern matching that line, in the order function declaration,
\* arrow function, bare method, class method, captures.
C20_FirstPatternOfNearestLine ==
    (called # -1 /\ languageId \in JavaScriptLanguages) =>
        LET candidates == CandidateLines(document, called)
        IN  IF candidates = {} THEN result = Null
            ELSE LET text == document[Greatest(candidates) + 1]
                 IN  /\ result.kind = "function"
                     /\ result.startLine = Greatest(candidates)
                     /\ result.name = NameBy(text, Least(PatternsMatching(text)))

\* the nearest candidate line is matched by the arrow pattern and by the
\* bare method pattern, which capture different names, and a line farther up
\* is a candidate too
C20_Witness ==
    /\ called # -1
    /\ languageId \in JavaScriptLanguages
    /\ result.kind = "function"
    /\ {2, 3} \subseteq PatternsMatching(document[result.startLine + 1])
    /\ NameBy(document[result.startLine + 1], 2)
          # NameBy(document[result.startLine + 1], 3)
    /\ result.name = NameBy(document[result.startLine + 1], 2)
    /\ \E i \in CandidateLines(document, called) : i < result.startLine

\* a pass that stays in its loop moves the line index by one: down the
\* buffer in the forward loops, up in the upward loops
ScanAdvances ==
    /\ (frame.pc \in UpwardLoops /\ frame'.pc = frame.pc)
          => frame'.i = frame.i - 1
    /\ (frame.pc \in ForwardLoops /\ frame'.pc = frame.pc)
          => frame'.i = frame.i + 1

\* the line index stays between the edge of its loop and the line the loop
\* started from: the window edge max(0, cursor - W) in the signature loop,
\* the buffer ends elsewhere
ScanInBounds ==
    /\ frame.pc = "signature" =>
          /\ frame.low = (IF called - ClaimedLookback(languageId) > 0
                          THEN called - ClaimedLookback(languageId) ELSE 0)
          /\ frame.low - 1 <= frame.i /\ frame.i <= called
    /\ frame.pc \in {"skip", "walk"} =>
          -1 <= frame.i /\ frame.i < frame.startLine
    /\ frame.pc \in ForwardLoops =>
          frame.startLine < frame.i /\ frame.i <= Len(document)

\* a bound on the passes a call still has to make, by the loop it is in:
\* the loops follow one another in a fixed order, and within a loop the
\* distance of the line index from the edge the loop walks to counts
StepsLeft ==
    LET L == Len(document)
        B == L + 2
    IN  CASE frame.pc = "returned" -> 0
          [] frame.pc = "return" -> 1
          [] frame.pc = "quotes" -> 2 + (L - frame.i)
          [] frame.pc = "walk" -> 2 + (frame.i + 1)
          [] frame.pc = "docstring" -> 3 + B
          [] frame.pc = "skip" -> 3 + B + (frame.i + 1)
          [] frame.pc = "indent" -> 4 + 2 * B + (L - frame.i)
          [] frame.pc = "close" -> 4 + 2 * B + (L - frame.i)
          [] frame.pc = "open" -> 5 + 3 * B + (L - frame.i)
          [] frame.pc = "signature" -> 6 + 4 * B + (frame.i - frame.low + 1)
          [] frame.pc = "idle" -> 7 + 6 * B

\* a call that has not returned has a statement to go on with: in the
\* signature loop the line index is past the window edge or on a line of the
\* buffer, every other place has its statement whatever the locals are
CanStep ==
    /\ frame.pc \in {"idle", "signature", "open", "close", "skip", "walk",
                     "indent", "docstring", "quotes", "return", "returned"}
    /\ frame.pc = "signature" =>
          frame.i < frame.low \/ frame.i < Len(document)

\* C15: every call returns: each pass of the upward signature scan, the
\* forward brace scans, the forward indentation scan, the upward doc-comment
\* walk and the forward docstring walk moves its line index by one towards
\* the window edge or the end of the buffer and never beyond it, so that the
\* number of passes left, a natural number, falls with every step until the
\* call has returned.
C15_EveryCallTerminates ==
    /\ [][ScanAdvances /\ StepsLeft' < StepsLeft]_vars
    /\ [](ScanInBounds /\ StepsLeft >= 0 /\ CanStep)

\* a call that went up to a header above the cursor, down to the closing
\* brace and up through a doc comment of several lines has returned
C15_Witness ==
    /\ frame.pc = "returned"
    /\ result.kind = "function"
    /\ result.startLine < called
    /\ result.endLine > result.startLine + 1
    /\ result.existingDocumentation.defined
    /\ Len(frame.docLines) > 2

(***************************************************************************)
(* Doc comments and docstrings that are not found.                         *)
(***************************************************************************)
\* the non-blank lines above line h
InkedAbove(d, h) ==
    {i \in 0..(h - 1) : ~IsBlankLine(d[i + 1])}

\* C21: on the paths that look for a doc comment, the documentation of a
\* record is absent when nothing but blank lines stands above the header,
\* when the first non-blank line above it does not end with `*/`, and when
\* no line from that closing line up to the start of the buffer begins with
\* `/**`.
C21_AbsentWithoutDocBlock ==
    (result.kind = "function" /\ languageId # "python") =>
        LET above == InkedAbove(document, result.startLine)
        IN  (\/ above = {}
             \/ ~FinishesWith(document[Greatest(above) + 1], <<"*", "/">>)
             \/ \A i \in 0..Greatest(above) :
                    ~BeginsWith(document[i + 1], <<"/", "*", "*">>))
                => result.existingDocumentation = Undefined

\* a record whose header has a closing line above it and code above that,
\* but no opening line: the walk went up to the start of the buffer
C21_Witness ==
    /\ result.kind = "function"
    /\ languageId # "python"
    /\ LET above == InkedAbove(document, result.startLine)
       IN  /\ Cardinality(above) > 2
           /\ FinishesWith(document[Greatest(above) + 1], <<"*", "/">>)
           /\ \A i \in 0..Greatest(above) :
                  ~BeginsWith(document[i + 1], <<"/", "*", "*">>)
    /\ result.existingDocumentation = Undefined

\* the two styles of triple quotes
TripleQuotes ==
    {<<"\"", "\"", "\"">>, <<"'", "'", "'">>}

\* C22: on the Python path a record has a docstring exactly when a line
\* follows the def line and begins, leading blanks aside, with triple quotes
\* of either style; a blank line below the def line leaves the docstring
\* absent whatever follows it, and a line that opens and closes with the
\* same quotes, with text of more than three characters, is the whole
\* docstring.
C22_DocstringOnNextLineOnly ==
    (result.kind = "function" /\ languageId = "python") =>
        LET h == result.startLine
            follows == h + 1 <= Len(document) - 1
        IN  /\ (result.existingDocumentation # Undefined)
                   <=> (follows /\ \E q \in TripleQuotes :
                                       BeginsWith(document[h + 2], q))
            /\ (follows /\ IsBlankLine(document[h + 2]))
                   => result.existingDocumentation = Undefined
            /\ (follows /\ \E q \in TripleQuotes :
                               /\ BeginsWith(document[h + 2], q)
                               /\ FinishesWith(document[h + 2], q)
                               /\ Len(Stripped(document[h + 2])) > 3)
                   => result.existingDocumentation = Defined(document[h + 2])

\* a record whose def line has a one-line docstring below it and more lines
\* below that
C22_Witness ==
    /\ result.kind = "function"
    /\ languageId = "python"
    /\ result.startLine + 2 < Len(document) - 1
    /\ document[result.startLine + 2] = PyDocOneLine
    /\ result.existingDocumentation = Defined(PyDocOneLine)

\* a record whose def line has a blank line and then a docstring below it
C22_WitnessBlank ==
    /\ result.kind = "function"
    /\ languageId = "python"
    /\ result.startLine + 2 <= Len(document) - 1
    /\ IsBlankLine(document[result.startLine + 2])
    /\ document[result.startLine + 3] = PyDocOneLine
    /\ result.existingDocumentation = Undefined

\* the lines after line b that end, trailing blanks aside, with the quotes q
ClosersBelow(d, b, q) ==
    {e \in (b + 1)..(Len(d) - 1) : FinishesWith(d[e + 1], q)}

\* C23 (as claimed; the code violates it): on the Python path, when the line
\* below the def line opens with triple quotes of one style and does not
\* end with quotes of that style after more than three characters, and a
\* later line ends with quotes of that style, the docstring is the lines
\* from the opening line to the first such line, joined by line breaks; a
\* line ending with the other style in between does not end it.
C23_MultiLineDocstringToSameQuotes ==
    (result.kind = "function" /\ languageId = "python"
        /\ result.startLine + 1 <= Len(document) - 1) =>
        LET b == result.startLine + 1
        IN  \A q \in TripleQuotes :
                (/\ BeginsWith(document[b + 1], q)
                 /\ ~(FinishesWith(document[b + 1], q)
                          /\ Len(Stripped(document[b + 1])) > 3)
                 /\ ClosersBelow(document, b, q) # {})
                    => result.existingDocumentation
                           = Defined(LinesJoined(document, b,
                                 Least(ClosersBelow(document, b, q))))

(***************************************************************************)
(* The two documentation commands of the extension (extension.ts).         *)
(***************************************************************************)
\* the text from position i (1-based) on begins with the piece
StartsAt(text, i, piece) ==
    /\ i + Len(piece) - 1 <= Len(text)
    /\ SubSeq(text, i, i + Len(piece) - 1) = piece

\* position i is where a line begins, position i - 1 where one ends
LineBeginsAt(text, i) ==
    i = 1 \/ text[i - 1] = "\n"

LineEndsAt(text, i) ==
    i = Len(text) \/ text[i + 1] = "\n"

\* the line breaks at or after position i
BreaksFrom(text, i) ==
    {j \in i..Len(text) : text[j] = "\n"}

\* the character U+0060, which a string of this language cannot hold
Backtick ==
    "backtick"

Fence ==
    <<Backtick, Backtick, Backtick>>

\* 'Sure, here is the updated documentation:' and a line break
SureText ==
    <<"S", "u", "r", "e", ",", " ", "h", "e", "r", "e", " ", "i", "s", " ",
      "t", "h", "e", " ", "u", "p", "d", "a", "t", "e", "d", " ", "d", "o",
      "c", "u", "m", "e", "n", "t", "a", "t", "i", "o", "n", ":", "\n">>

RECURSIVE RemoveChatter(_, _)
\* the first replace of cleanupDocumentation, with the flag g: a fence of
\* three backticks with the rest of its line and the line break, and the
\* sentence 'Sure, here is the updated documentation:' with its line break
RemoveChatter(text, i) ==
    IF i > Len(text) THEN << >>
    ELSE IF StartsAt(text, i, Fence) /\ BreaksFrom(text, i + 3) # {}
    THEN RemoveChatter(text, Least(BreaksFrom(text, i + 3)) + 1)
    ELSE IF StartsAt(text, i, SureText)
    THEN RemoveChatter(text, i + Len(SureText))
    ELSE <<text[i]>> \o RemoveChatter(text, i + 1)

RECURSIVE Kept(_, _, _, _)
\* the characters of positions lo..hi of the text that are not removed, in
\* their order
Kept(text, removed, lo, hi) ==
    IF lo > hi THEN << >>
    ELSE IF lo = hi
    THEN IF lo \in removed THEN << >> ELSE <<text[lo]>>
    ELSE Kept(text, removed, lo, (lo + hi) \div 2)
             \o Kept(text, removed, (lo + hi) \div 2 + 1, hi)

\* .replace(/^\/\*\*|\*\/$/gm, ''), from position i on: `/**` where a line
\* begins and `*/` where a line ends; the matches run from left to right
\* and do not overlap, so the star of `/**` closes nothing
RemoveDocMarks(text, i) ==
    LET opens == {p \in i..Len(text) :
                     LineBeginsAt(text, p) /\ StartsAt(text, p, <<"/", "*", "*">>)}
        closes == {p \in i..Len(text) :
                      /\ StartsAt(text, p, <<"*", "/">>)
                      /\ LineEndsAt(text, p + 1)
                      /\ p - 2 \notin opens}
        removed == UNION ({p..(p + 2) : p \in opens}
                              \cup {p..(p + 1) : p \in closes})
    IN  Kept(text, removed, i, Len(text))

\* part_001 lines 32-37
cleanupDocumentation(documentation) ==
    Trim(RemoveDocMarks(RemoveChatter(documentation, 1), 1))

\* part_001 lines 40-66; the helper is called formatDocumentation there
formatDocumentationOfCommand(documentation, language) ==
    LET cleanedDoc == cleanupDocumentation(documentation)
        lines == Split(cleanedDoc)
        \* lines.map(line => ...)
        starred == [k \in 1..Len(lines) |-> <<" ", "*", " ">> \o Trim(lines[k])]
        slashed == [k \in 1..Len(lines) |-> <<"/", "/", " ">> \o lines[k]]
    IN  IF language \in JavaScriptLanguages
        THEN Join(<<<<"/", "*", "*">>>>
                      \o starred
                      \o <<<<" ", "*", "/">>, << >>>>, <<"\n">>)
        ELSE IF language = "python"
        THEN <<"\"", "\"", "\"", "\n">> \o cleanedDoc
                 \o <<"\n", "\"", "\"", "\"", "\n">>
        ELSE Join(slashed, <<"\n">>) \o <<"\n">>

RECURSIVE OffsetOfLine(_, _)
\* the offset of (line, 0) in the text of the document; a position below
\* the last line is moved to the end of the text, as the editor does when it
\* validates the positions of an edit
OffsetOfLine(lines, line) ==
    IF line >= Len(lines) THEN Len(getText(lines))
    ELSE IF line = 0 THEN 0
    ELSE OffsetOfLine(lines, line - 1) + Len(lines[line]) + 1

\* WorkspaceEdit.insert(uri, new Position(line, 0), text), applied
InsertAtLine(lines, line, text) ==
    LET whole == getText(lines)
        at == OffsetOfLine(lines, line)
    IN  Split(SubSeq(whole, 1, at) \o text \o SubSeq(whole, at + 1, Len(whole)))

\* WorkspaceEdit.replace(uri, new Range((from, 0), (to, 0)), text), applied
ReplaceLines(lines, from, to, text) ==
    LET whole == getText(lines)
        a == OffsetOfLine(lines, from)
        b == OffsetOfLine(lines, to)
    IN  Split(SubSeq(whole, 1, a) \o text \o SubSeq(whole, b + 1, Len(whole)))

\* `Adds two numbers.`
AnswerOneLine ==
    <<"A", "d", "d", "s", " ", "t", "w", "o", " ", "n", "u", "m", "b", "e",
      "r", "s", ".">>

\* the lines `Adds two numbers.` and `Returns the sum.`
AnswerTwoLines ==
    <<"A", "d", "d", "s", " ", "t", "w", "o", " ", "n", "u", "m", "b", "e",
      "r", "s", ".", "\n", "R", "e", "t", "u", "r", "n", "s", " ", "t", "h",
      "e", " ", "s", "u", "m", ".">>

\* a fenced answer: a fence and js, the line `/** Adds two numbers. */`, a
\* fence
AnswerFenced ==
    <<Backtick, Backtick, Backtick, "j", "s", "\n", "/", "*", "*", " ", "A", "d", "d", "s",
      " ", "t", "w", "o", " ", "n", "u", "m", "b", "e", "r", "s", ".", " ",
      "*", "/", "\n", Backtick, Backtick, Backtick>>

\* what the model answers with
Answers ==
    {AnswerOneLine, AnswerTwoLines, AnswerFenced}

\* the most edits the user makes while a request is pending
MaxEdits ==
    1

\* the documents a command is run on: functions with and without a doc
\* comment or a docstring
CommandDocuments(tag) ==
    DocCommentDocuments(tag) \cup DocstringDocuments(tag)
        \cup SampleDocuments(tag)

\* openaiService.initialize(key) returned true during activation: the
\* commands are registered only then (part_001 lines 76-97)
ActivatedService ==
    [NewOpenAIService EXCEPT !.openai = "sk-config", !.succeeded = TRUE]

\* a command that located a function and waits for the model; before is the
\* document it was located in, header the line the located header is on now
\* (-1 once the user deleted it), edits the edits made since
Awaiting(kind, functionInfo, before) ==
    [pc |-> "awaiting", kind |-> kind, functionInfo |-> functionInfo,
     before |-> before, header |-> functionInfo.startLine, edits |-> 0,
     at |-> -1, text |-> << >>]

\* a command that ended without an edit
Ended(pc, kind) ==
    [pc |-> pc, kind |-> kind]

\* the languages the commands are run in: one for each style of comment the
\* commands write
CommandLanguages ==
    {"javascript", "python", "c"}

InitCommands ==
    /\ languageId \in CommandLanguages
    /\ document \in CommandDocuments(languageId)
    /\ position \in 0..(Len(document) - 1)
    /\ called = -1
    /\ result = NoCall
    /\ earlier = NoCall
    /\ frame = Idle
    /\ command = NoCommand
    /\ service = ActivatedService
    /\ extractor = NoExtraction
    /\ rag = NewRAGSystem
    /\ formatter = NoFormatting

commandFrame == <<languageId, position, earlier, frame, service, extractor,
                  rag, formatter>>

\* lines 101-119: gptDocAssistant.generateDoc up to the request
GenerateDocCommand ==
    /\ command.pc = "idle"
    /\ service.openai # "null"
    /\ LET functionInfo ==
               findFunctionAtPosition(document, languageId, position)
       IN  /\ result' = functionInfo
           /\ command' = IF functionInfo.kind = "function"
                         THEN Awaiting("generate", functionInfo, document)
                         ELSE IF functionInfo.kind = "null"
                         THEN Ended("noFunction", "generate")
                         ELSE Ended("failed", "generate")
    /\ called' = position
    /\ UNCHANGED document
    /\ UNCHANGED commandFrame

\* lines 163-181: gptDocAssistant.updateDoc up to the request
UpdateDocCommand ==
    /\ command.pc = "idle"
    /\ service.openai # "null"
    /\ LET functionInfo ==
               findFunctionAtPosition(document, languageId, position)
       IN  /\ result' = functionInfo
           /\ command' = IF functionInfo.kind = "thrown"
                         THEN Ended("failed", "update")
                         ELSE IF \/ functionInfo.kind = "null"
                                 \/ ~functionInfo.existingDocumentation.defined
                                 \/ functionInfo.existingDocumentation.text
                                        = << >>
                         THEN Ended("noDocumentation", "update")
                         ELSE Awaiting("update", functionInfo, document)
    /\ called' = position
    /\ UNCHANGED document
    /\ UNCHANGED commandFrame

\* the user types while the request is pending: a blank line goes in at
\* line k
InsertLine ==
    /\ command.pc = "awaiting"
    /\ command.edits < MaxEdits
    /\ \E k \in 0..Len(document) :
           /\ document' = SubSeq(document, 1, k) \o <<Blank>>
                              \o SubSeq(document, k + 1, Len(document))
           /\ command' = [command EXCEPT
                  !.edits = @ + 1,
                  !.header = IF @ >= k THEN @ + 1 ELSE @]
    /\ UNCHANGED <<called, result>>
    /\ UNCHANGED commandFrame

\* the user deletes line k while the request is pending
DeleteLine ==
    /\ command.pc = "awaiting"
    /\ command.edits < MaxEdits
    /\ Len(document) > 1
    /\ \E k \in 0..(Len(document) - 1) :
           /\ document' = SubSeq(document, 1, k)
                              \o SubSeq(document, k + 2, Len(document))
           /\ command' = [command EXCEPT
                  !.edits = @ + 1,
                  !.header = IF @ = k \/ @ = -1 THEN -1
                             ELSE IF @ > k THEN @ - 1 ELSE @]
    /\ UNCHANGED <<called, result>>
    /\ UNCHANGED commandFrame

\* lines 128-151: the model answers, the documentation is formatted and
\* inserted at (startLine, 0)
GenerateDocApply ==
    /\ command.pc = "awaiting"
    /\ command.kind = "generate"
    /\ \E documentation \in Answers :
           LET functionInfo == command.functionInfo
               formattedDocumentation ==
                   formatDocumentationOfCommand(documentation,
                                                functionInfo.language)
           IN  /\ document' = InsertAtLine(document, functionInfo.startLine,
                                           formattedDocumentation)
               /\ command' = [command EXCEPT
                      !.pc = "applied",
                      !.at = functionInfo.startLine,
                      !.text = formattedDocumentation]
    /\ UNCHANGED <<called, result>>
    /\ UNCHANGED commandFrame

\* lines 188-224: the model answers, the documentation is formatted and put
\* in place of the range (startLine - 1, 0)..(startLine, 0); a Position
\* with a negative line cannot be made, the constructor throws and the catch
\* block at line 227 reports it
UpdateDocApply ==
    /\ command.pc = "awaiting"
    /\ command.kind = "update"
    /\ \E updatedDocumentation \in Answers :
           LET functionInfo == command.functionInfo
               formattedDocumentation ==
                   formatDocumentationOfCommand(updatedDocumentation,
                                                functionInfo.language)
               startLine == functionInfo.startLine - 1
               endLine == functionInfo.startLine
           IN  IF startLine < 0
               THEN /\ document' = document
                    /\ command' = [command EXCEPT
                           !.pc = "threw",
                           !.text = formattedDocumentation]
               ELSE /\ document' = ReplaceLines(document, startLine, endLine,
                                                formattedDocumentation)
                    /\ command' = [command EXCEPT
                           !.pc = "applied",
                           !.at = startLine,
                           !.text = formattedDocumentation]
    /\ UNCHANGED <<called, result>>
    /\ UNCHANGED commandFrame

\* the request fails: generateDocumentation or updateDocumentation throws
\* and the catch block of the command reports it (lines 154-157, 227-230)
RequestFails ==
    /\ command.pc = "awaiting"
    /\ command' = [command EXCEPT !.pc = "failed"]
    /\ UNCHANGED <<document, called, result>>
    /\ UNCHANGED commandFrame

NextCommands ==
    \/ GenerateDocCommand
    \/ UpdateDocCommand
    \/ InsertLine
    \/ DeleteLine
    \/ GenerateDocApply
    \/ UpdateDocApply
    \/ RequestFails

SpecCommands ==
    InitCommands /\ [][NextCommands]_vars

\* the lines of a text that ends with a line break
LinesOfText(text) ==
    Split(SubSeq(text, 1, Len(text) - 1))

\* the lines <<first, last>> of document d that hold the documentation of
\* the record: below the header on the Python path, above it elsewhere,
\* ending on the first non-blank line above the header
DocumentationLines(d, functionInfo) ==
    LET n == Len(Split(functionInfo.existingDocumentation.text))
        h == functionInfo.startLine
    IN  IF functionInfo.language = "python" THEN <<h + 1, h + n>>
        ELSE LET c == Greatest(InkedAbove(d, h))
             IN  <<c - n + 1, c>>

\* C24 (as claimed; the code violates it): when the update command has
\* handled the answer of the model, no edit made in between, the document is
\* the document the function was located in with the lines of its
\* documentation, all of them and no other line, replaced by the formatted
\* answer.
C24_UpdateReplacesDocumentation ==
    (/\ command.pc \in {"applied", "threw"}
     /\ command.kind = "update"
     /\ command.edits = 0) =>
        LET before == command.before
            block == DocumentationLines(before, command.functionInfo)
        IN  document = SubSeq(before, 1, block[1])
                           \o LinesOfText(command.text)
                           \o SubSeq(before, block[2] + 2, Len(before))

\* C25 (as claimed; the code violates it): when the generate command has
\* applied its edit, the line it inserted at is the line the header of the
\* located function was on at that moment, whatever the user did to the
\* document while the request was pending.
C25_InsertedAtHeader ==
    (command.pc = "applied" /\ command.kind = "generate") =>
        /\ command.at = command.header
        /\ document[command.at + 1 + Len(LinesOfText(command.text))]
               = command.before[command.functionInfo.startLine + 1]

(***************************************************************************)
(* OpenAIService (openaiService.ts).                                       *)
(***************************************************************************)
\* the most calls made on the service
MaxServiceCalls ==
    3

\* the keys a caller passes: none (undefined or ''), and two keys
ApiKeys ==
    {"", "sk-config", "sk-other"}

\* process.env.OPENAI_API_KEY: unset, or a key
EnvKeys ==
    {"", "sk-env"}

\* as initialize, but a call that finds no key drops the client
initializeDropping(openai, env, apiKey, constructorThrows) ==
    LET key == IF apiKey # "" THEN apiKey ELSE env
    IN  IF key = "" THEN [openai |-> "null", returned |-> FALSE]
        ELSE IF constructorThrows THEN [openai |-> openai, returned |-> FALSE]
        ELSE [openai |-> key, returned |-> TRUE]

\* part_004 lines 22-42: the client after the call and what the call
\* returns; constructorThrows says whether new OpenAI(...) throws
initialize(openai, env, apiKey, constructorThrows) ==
    LET key == IF apiKey # "" THEN apiKey ELSE env
    IN  IF key = "" THEN [openai |-> openai, returned |-> FALSE]
        ELSE IF constructorThrows THEN [openai |-> openai, returned |-> FALSE]
        ELSE [openai |-> key, returned |-> TRUE]

\* part_004 lines 201-203
isInitialized(openai) ==
    openai # "null"

InitService ==
    /\ languageId = "javascript"
    /\ document = <<JsFunction>>
    /\ position = 0
    /\ called = -1
    /\ result = NoCall
    /\ earlier = NoCall
    /\ frame = Idle
    /\ command = NoCommand
    /\ \E env \in EnvKeys : service = [NewOpenAIService EXCEPT !.env = env]
    /\ extractor = NoExtraction
    /\ rag = NewRAGSystem
    /\ formatter = NoFormatting

serviceFrame == <<document, languageId, position, called, result, earlier,
                  frame, command, extractor, rag, formatter>>

\* openaiService.initialize(apiKey)
Initialize ==
    /\ service.calls < MaxServiceCalls
    /\ \E apiKey \in ApiKeys, constructorThrows \in BOOLEAN :
           LET call == initialize(service.openai, service.env, apiKey,
                                  constructorThrows)
           IN  service' = [service EXCEPT
                   !.openai = call.openai,
                   !.succeeded = @ \/ call.returned,
                   !.calls = @ + 1,
                   !.last = [op |-> "initialize", returned |-> call.returned,
                             before |-> service.openai,
                             apiCallsBefore |-> service.apiCalls]]
    /\ UNCHANGED serviceFrame

\* what generateDocumentation (lines 52-93) and updateDocumentation (lines
\* 103-150) do to the service: throw at once without a client, else call the
\* API and return its answer or throw what the catch block makes of a failure
Request(op) ==
    /\ service.calls < MaxServiceCalls
    /\ IF service.openai = "null"
       THEN service' = [service EXCEPT
                !.calls = @ + 1,
                !.last = [op |-> op,
                          returned |-> "OpenAI client not initialized",
                          before |-> service.openai,
                          apiCallsBefore |-> service.apiCalls]]
       ELSE \E outcome \in {"answer", "Failed"} :
                service' = [service EXCEPT
                    !.apiCalls = @ + 1,
                    !.calls = @ + 1,
                    !.last = [op |-> op, returned |-> outcome,
                              before |-> service.openai,
                              apiCallsBefore |-> service.apiCalls]]
    /\ UNCHANGED serviceFrame

GenerateDocumentation ==
    Request("generateDocumentation")

UpdateDocumentation ==
    Request("updateDocumentation")

\* openaiService.isInitialized()
IsInitialized ==
    /\ service.calls < MaxServiceCalls
    /\ service' = [service EXCEPT
           !.calls = @ + 1,
           !.last = [op |-> "isInitialized",
                     returned |-> isInitialized(service.openai),
                     before |-> service.openai,
                     apiCallsBefore |-> service.apiCalls]]
    /\ UNCHANGED serviceFrame

NextService ==
    \/ Initialize
    \/ GenerateDocumentation
    \/ UpdateDocumentation
    \/ IsInitialized

SpecService ==
    InitService /\ [][NextService]_vars

\* C26: isInitialized() is true exactly when an initialize call returned
\* true before; a generateDocumentation or updateDocumentation call made
\* while it is false throws 'OpenAI client not initialized' and the API is
\* not called; and an initialize call that returned false left the client
\* as it was.
C26_InitializedIffInitializeSucceeded ==
    /\ isInitialized(service.openai) <=> service.succeeded
    /\ service.last.op = "isInitialized"
           => (service.last.returned <=> service.succeeded)
    /\ (/\ service.last.op \in {"generateDocumentation", "updateDocumentation"}
        /\ ~isInitialized(service.last.before))
           => /\ service.last.returned = "OpenAI client not initialized"
              /\ service.apiCalls = service.last.apiCallsBefore
    /\ (service.last.op = "initialize" /\ service.last.returned = FALSE)
           => service.openai = service.last.before

\* a client was made, a later initialize call found no key and returned
\* false, and the client is still there
C26_Witness ==
    /\ service.last.op = "initialize"
    /\ service.last.returned = FALSE
    /\ service.last.before # "null"
    /\ service.openai = service.last.before
    /\ service.succeeded

(***************************************************************************)
(* ContextExtractor (contextExtractor.ts). A file is the sequence of the   *)
(* names on its path below the workspace folder.                           *)
(***************************************************************************)
\* `src/a.ts`
FileA ==
    <<<<"s", "r", "c">>, <<"a", ".", "t", "s">>>>

\* `src/b.ts`
FileB ==
    <<<<"s", "r", "c">>, <<"b", ".", "t", "s">>>>

\* `main.py`
FileMain ==
    <<<<"m", "a", "i", "n", ".", "p", "y">>>>

\* `README`
FileReadme ==
    <<<<"R", "E", "A", "D", "M", "E">>>>

\* `.gitignore`
FileIgnore ==
    <<<<".", "g", "i", "t", "i", "g", "n", "o", "r", "e">>>>

\* `node_modules/m/i.js`
FileModule ==
    <<<<"n", "o", "d", "e", "_", "m", "o", "d", "u", "l", "e", "s">>, <<"m">>, <<"i", ".", "j", "s">>>>

\* `lib/x.tar.gz`
FileArchive ==
    <<<<"l", "i", "b">>, <<"x", ".", "t", "a", "r", ".", "g", "z">>>>

\* the files a workspace is made of
WorkspaceFiles ==
    {FileA, FileB, FileMain, FileReadme, FileIgnore, FileModule, FileArchive}

\* the most files in a workspace
MaxFiles ==
    3

Workspaces ==
    {w \in SUBSET WorkspaceFiles : Cardinality(w) <= MaxFiles}

\* path.extname: from the last dot of the last name on, or '' when the name
\* has no dot or only a leading one
extname(file) ==
    LET base == file[Len(file)]
        dots == {i \in 1..Len(base) : base[i] = "."}
    IN  IF dots = {} \/ Greatest(dots) = 1 THEN << >>
        ELSE SubSeq(base, Greatest(dots), Len(base))

\* the directory name `node_modules`
NodeModules ==
    <<"n", "o", "d", "e", "_", "m", "o", "d", "u", "l", "e", "s">>

\* vscode.workspace.findFiles(**/*, **/node_modules/**): the files with no
\* node_modules directory on their path
findFiles(workspace) ==
    {file \in workspace :
        \A k \in 1..(Len(file) - 1) :
            file[k] # NodeModules}

\* lines 105-113: the names in a directory, those with a leading dot and
\* node_modules left out; at is the path of the directory
readDirectorySync(workspace, at) ==
    {file[Len(at) + 1] :
        file \in {f \in workspace : Len(f) > Len(at) /\ SubSeq(f, 1, Len(at)) = at
                    /\ f[Len(at) + 1][1] # "."
                    /\ f[Len(at) + 1] # NodeModules}}

\* .slice(0, 5) of a directory listing, whose order is the file system's
FirstFive(names) ==
    IF Cardinality(names) <= 5 THEN names
    ELSE CHOOSE five \in SUBSET names : Cardinality(five) = 5

\* lines 75-99
mapProjectStructure(workspace) ==
    {[name |-> entry,
      type |-> IF <<entry>> \in workspace THEN "file" ELSE "directory",
      children |-> IF <<entry>> \in workspace THEN {}
                   ELSE FirstFive(readDirectorySync(workspace, <<entry>>))] :
     entry \in readDirectorySync(workspace, << >>)}

\* files.forEach(file => { const ext = path.extname(file.fsPath);
\* if (ext) fileTypes.add(ext); }) on a Set
AddExtensions(fileTypes, files) ==
    fileTypes \cup {extname(file) : file \in {f \in files : extname(f) # << >>}}

\* line 68, Array.from(fileTypes) at the return statement: the callback
\* passed to then has not run, it runs when the promise of findFiles
\* resolves, after the caller has the array
ArrayAtReturn(fileTypes) ==
    fileTypes

InitExtractor ==
    /\ languageId = "javascript"
    /\ document = <<JsFunction>>
    /\ position = 0
    /\ called = -1
    /\ result = NoCall
    /\ earlier = NoCall
    /\ frame = Idle
    /\ command = NoCommand
    /\ service = NewOpenAIService
    /\ \E hasFolder \in BOOLEAN, workspace \in Workspaces :
           /\ hasFolder \/ workspace = {}
           /\ extractor = [pc |-> "idle", hasFolder |-> hasFolder,
                           workspace |-> workspace]
    /\ rag = NewRAGSystem
    /\ formatter = NoFormatting

extractorFrame == <<document, languageId, position, called, result, earlier,
                    frame, command, service, rag, formatter>>

\* lines 23-43 with getProjectFileTypes (45-66) and mapProjectStructure: the
\* call returns with the search still pending
ExtractWorkspaceContext ==
    /\ extractor.pc = "idle"
    /\ extractor' =
           IF ~extractor.hasFolder
           THEN [pc |-> "done", hasFolder |-> FALSE,
                 workspace |-> extractor.workspace,
                 set |-> {}, fileTypes |-> {}, projectStructure |-> {}]
           ELSE [pc |-> "searching", hasFolder |-> TRUE,
                 workspace |-> extractor.workspace,
                 set |-> {},
                 fileTypes |-> ArrayAtReturn({}),
                 projectStructure |-> mapProjectStructure(extractor.workspace)]
    /\ UNCHANGED extractorFrame

\* lines 56-61: the search resolves and the callback fills the Set; the
\* array that was returned is another object
FindFilesResolves ==
    /\ extractor.pc = "searching"
    /\ extractor' = [extractor EXCEPT
           !.pc = "done",
           !.set = AddExtensions(@, findFiles(extractor.workspace))]
    /\ UNCHANGED extractorFrame

\* the search is rejected: the callback never runs
FindFilesRejects ==
    /\ extractor.pc = "searching"
    /\ extractor' = [extractor EXCEPT !.pc = "done"]
    /\ UNCHANGED extractorFrame

NextExtractor ==
    \/ ExtractWorkspaceContext
    \/ FindFilesResolves
    \/ FindFilesRejects

SpecExtractor ==
    InitExtractor /\ [][NextExtractor]_vars

\* C27 (as claimed; the code violates it): the fileTypes of a returned
\* context are the extensions of the files of the workspace outside
\* node_modules, each once.
C27_FileTypesOfWorkspace ==
    (extractor.pc \in {"searching", "done"} /\ extractor.hasFolder) =>
        extractor.fileTypes
            = {extname(file) :
                  file \in {f \in findFiles(extractor.workspace) :
                               extname(f) # << >>}}

(***************************************************************************)
(* RAGSystem (ragSystem.ts).                                               *)
(***************************************************************************)
\* /(?:function\s+\w+\s*\(.*?\)|\w+\s*=\s*\(.*?\)\s*=>)\s*{/g
ContextFunctionPattern ==
    <<Alt(<<Lit(<<"f", "u", "n", "c", "t", "i", "o", "n">>)
                \o <<Plus(Space), Plus(Word), Star(Space)>> \o Lit(<<"(">>)
                \o <<LazyAny>> \o Lit(<<")">>),
            <<Plus(Word), Star(Space)>> \o Lit(<<"=">>) \o <<Star(Space)>>
                \o Lit(<<"(">>) \o <<LazyAny>> \o Lit(<<")">>)
                \o <<Star(Space)>> \o Lit(<<"=", ">">>)>>)>>
        \o <<Star(Space)>> \o Lit(<<"{">>)

\* /class\s+\w+\s*{/g
ContextClassPattern ==
    Lit(<<"c", "l", "a", "s", "s">>) \o <<Plus(Space), Plus(Word), Star(Space)>>
        \o Lit(<<"{">>)

\* /(?:public|private|protected)?\s*\w+\s*\(.*?\)\s*{/g
ContextMethodPattern ==
    <<Opt(<<Alt(<<Lit(<<"p", "u", "b", "l", "i", "c">>),
                  Lit(<<"p", "r", "i", "v", "a", "t", "e">>),
                  Lit(<<"p", "r", "o", "t", "e", "c", "t", "e", "d">>)>>)>>)>>
        \o <<Star(Space), Plus(Word), Star(Space)>> \o Lit(<<"(">>)
        \o <<LazyAny>> \o Lit(<<")">>) \o <<Star(Space)>> \o Lit(<<"{">>)

\* Object.values(contextExtractionPatterns), in the order of the literal
contextExtractionPatterns ==
    <<ContextFunctionPattern, ContextClassPattern, ContextMethodPattern>>

\* the most characters of a snippet (line 135)
SnippetLength ==
    500

RECURSIVE Snippets(_, _, _)
\* lines 129-139 for one pattern: content.matchAll(pattern), and for each
\* match the text from its index on, SnippetLength characters at most
Snippets(pattern, content, start) ==
    LET match == ExecFrom(pattern, content, start)
    IN  IF ~match.ok THEN << >>
        ELSE <<SubSeq(content, match.index,
                      IF match.index + SnippetLength - 1 < Len(content)
                      THEN match.index + SnippetLength - 1
                      ELSE Len(content))>>
                 \o Snippets(pattern, content,
                             IF match.end > match.index THEN match.end
                             ELSE match.index + 1)

\* lines 126-139: the snippets of a content, pattern by pattern
contextSnippets(content) ==
    Snippets(contextExtractionPatterns[1], content, 1)
        \o Snippets(contextExtractionPatterns[2], content, 1)
        \o Snippets(contextExtractionPatterns[3], content, 1)

\* a file of 500 characters: `function add(a, b) {`, a line of filler, `}`
LongContent ==
    <<"f", "u", "n", "c", "t", "i", "o", "n", " ", "a", "d", "d", "(", "a", ",",
      " ", "b", ")", " ", "{", "\n">>
        \o [i \in 1..477 |-> "#"] \o <<"\n", "}">>

\* `class A {` and `}`
ClassContent ==
    <<"c", "l", "a", "s", "s", " ", "A", " ", "{", "\n", "}">>

\* `x = 1`
PlainContent ==
    <<"x", " ", "=", " ", "1">>

\* the contents of the files
Contents ==
    {LongContent, ClassContent, PlainContent}

\* the patterns and the contents are constants: the snippets of each content
\* are computed once
SnippetCache ==
    [content \in Contents |-> contextSnippets(content)]

\* Map.prototype.set on a map kept as the sequence of its <<key, value>>
\* entries in insertion order: a key already there keeps its place
MapSet(map, key, value) ==
    IF \E k \in 1..Len(map) : map[k][1] = key
    THEN [k \in 1..Len(map) |->
             IF map[k][1] = key THEN <<key, value>> ELSE map[k]]
    ELSE Append(map, <<key, value>>)

\* lines 118-145: the cache after processFileContent(filePath, content)
processFileContent(cache, filePath, content) ==
    LET snippets == SnippetCache[content]
    IN  IF Len(snippets) > 0
        THEN MapSet(cache, filePath, Join(snippets, <<"\n", "\n">>))
        ELSE cache

\* line 152
maxContextLength ==
    2000

\* `// Context from `
ContextFrom ==
    <<"/", "/", " ", "C", "o", "n", "t", "e", "x", "t", " ", "f", "r", "o",
      "m", " ">>

\* line 157: the context of a file with the name of the file above it
contextWithReference(filePath, context) ==
    ContextFrom \o filePath[Len(filePath)] \o <<":", "\n">> \o context
        \o <<"\n", "\n">>

RECURSIVE AggregateSkipping(_, _, _)
\* as Aggregate, but an entry that does not fit is passed over and the loop
\* goes on
AggregateSkipping(cache, k, aggregatedContext) ==
    IF k > Len(cache) THEN aggregatedContext
    ELSE LET reference == contextWithReference(cache[k][1], cache[k][2])
         IN  IF Len(aggregatedContext \o reference) > maxContextLength
             THEN AggregateSkipping(cache, k + 1, aggregatedContext)
             ELSE AggregateSkipping(cache, k + 1,
                                    aggregatedContext \o reference)

RECURSIVE Aggregate(_, _, _)
\* lines 155-165: the loop over the cache from entry k on
Aggregate(cache, k, aggregatedContext) ==
    IF k > Len(cache) THEN aggregatedContext
    ELSE LET reference == contextWithReference(cache[k][1], cache[k][2])
         IN  IF Len(aggregatedContext \o reference) > maxContextLength
             THEN aggregatedContext
             ELSE Aggregate(cache, k + 1, aggregatedContext \o reference)

\* lines 151-168
aggregateContext(cache) ==
    Trim(Aggregate(cache, 1, << >>))

\* lines 71-83
getLanguageFileExtensions(language) ==
    CASE language = "javascript" -> {<<".", "j", "s">>, <<".", "j", "s", "x">>}
      [] language = "typescript" -> {<<".", "t", "s">>, <<".", "t", "s", "x">>}
      [] language = "python" -> {<<".", "p", "y">>}
      [] language = "java" -> {<<".", "j", "a", "v", "a">>}
      [] language = "csharp" -> {<<".", "c", "s">>}
      [] language = "cpp" -> {<<".", "c", "p", "p">>, <<".", "h">>,
                              <<".", "h", "p", "p">>}
      [] language = "c" -> {<<".", "c">>, <<".", "h">>}
      [] OTHER -> {}

\* lines 90-101
ignoredDirs ==
    {<<"n", "o", "d", "e", "_", "m", "o", "d", "u", "l", "e", "s">>,
     <<".", "g", "i", "t">>,
     <<".", "v", "s", "c", "o", "d", "e">>,
     <<"d", "i", "s", "t">>,
     <<"b", "u", "i", "l", "d">>,
     <<"o", "u", "t">>,
     <<"t", "a", "r", "g", "e", "t">>}

shouldIgnoreDirectory(dirName) ==
    dirName \in ignoredDirs

\* lines 109-111
isRelevantFile(fileName, extensions) ==
    \E ext \in extensions : EndsWith(fileName, ext)

\* the files of the workspace, in the order readdir lists them: path and
\* content
RagFiles ==
    <<[path |-> <<<<"s", "r", "c">>, <<"a", ".", "j", "s">>>>,
       content |-> LongContent],
      [path |-> <<<<"s", "r", "c">>, <<"b", ".", "j", "s">>>>,
       content |-> LongContent],
      [path |-> <<<<"s", "r", "c">>, <<"d", ".", "j", "s">>>>,
       content |-> ClassContent],
      [path |-> <<<<"s", "r", "c">>, <<"e", ".", "t", "s">>>>,
       content |-> ClassContent],
      [path |-> <<<<"s", "r", "c">>, <<"n", "o", "t", "e", "s", ".", "j", "s">>>>,
       content |-> PlainContent],
      [path |-> <<<<"d", "i", "s", "t">>, <<"z", ".", "j", "s">>>>,
       content |-> ClassContent]>>

\* the most files in a workspace
MaxRagFiles ==
    3

\* the most reads that fail
MaxReadFailures ==
    1

\* the workspaces: the files of RagFiles in that order, some left out
RagWorkspaces ==
    {w \in SUBSET (1..Len(RagFiles)) : Cardinality(w) <= MaxRagFiles}

\* the languages extractProjectContext is called with
RagLanguages ==
    {"javascript", "typescript"}

\* the calls that can be in flight together
RagCalls ==
    {1, 2}

RECURSIVE Ascending(_)
\* a set of numbers as an ascending sequence
Ascending(S) ==
    IF S = {} THEN << >> ELSE <<Least(S)>> \o Ascending(S \ {Least(S)})

\* lines 42-64 without the reads: the files searchFiles will read, in the
\* order it comes to them; no directory on the path is an ignored one and
\* the name ends with an extension of the language
filesToRead(workspace, language) ==
    Ascending({f \in workspace :
        LET path == RagFiles[f].path
        IN  /\ \A k \in 1..(Len(path) - 1) : ~shouldIgnoreDirectory(path[k])
            /\ isRelevantFile(path[Len(path)],
                              getLanguageFileExtensions(language))})

\* no call
NoRagCall ==
    [pc |-> "idle"]

InitRag ==
    /\ languageId = "javascript"
    /\ document = <<JsFunction>>
    /\ position = 0
    /\ called = -1
    /\ result = NoCall
    /\ earlier = NoCall
    /\ frame = Idle
    /\ command = NoCommand
    /\ service = NewOpenAIService
    /\ extractor = NoExtraction
    /\ \E workspace \in RagWorkspaces, hasFolder \in BOOLEAN :
           /\ hasFolder \/ workspace = {}
           /\ rag = [projectContextCache |-> << >>,
                     hasFolder |-> hasFolder, workspace |-> workspace,
                     failures |-> 0,
                     calls |-> [c \in RagCalls |-> NoRagCall]]
    /\ formatter = NoFormatting

ragFrame == <<document, languageId, position, called, result, earlier, frame,
              command, service, extractor, formatter>>

\* a call in flight or returned: the files it has still to read, the files
\* it has read, in that order, the cache as it was when the call aggregated
\* it and what the call returned
RagCall(pc, language, pending) ==
    [pc |-> pc, language |-> language, pending |-> pending, read |-> << >>,
     cache |-> << >>, returned |-> << >>, failed |-> FALSE]

\* lines 13-26: extractProjectContext(language) up to the first await
ExtractProjectContext(c) ==
    /\ rag.calls[c].pc = "idle"
    /\ \E language \in RagLanguages :
           rag' = [rag EXCEPT
               !.projectContextCache = << >>,
               !.calls[c] =
                   IF ~rag.hasFolder
                   THEN RagCall("returned", language, << >>)
                   ELSE RagCall("searching", language,
                                filesToRead(rag.workspace, language))]
    /\ UNCHANGED ragFrame

\* lines 56-58: readFile resolves and the content is processed
ReadFile(c) ==
    /\ rag.calls[c].pc = "searching"
    /\ rag.calls[c].pending # << >>
    /\ LET file == RagFiles[Head(rag.calls[c].pending)]
       IN  rag' = [rag EXCEPT
               !.projectContextCache =
                   processFileContent(@, file.path, file.content),
               !.calls[c].pending = Tail(@),
               !.calls[c].read = Append(@, Head(rag.calls[c].pending))]
    /\ UNCHANGED ragFrame

\* lines 59-61: readFile rejects, the error is logged and the loop goes on
ReadFileFails(c) ==
    /\ rag.calls[c].pc = "searching"
    /\ rag.calls[c].pending # << >>
    /\ rag.failures < MaxReadFailures
    /\ rag' = [rag EXCEPT !.calls[c].pending = Tail(@),
                          !.failures = @ + 1]
    /\ UNCHANGED ragFrame

\* lines 29-30: the search is over and the cache is aggregated
ReturnContext(c) ==
    /\ rag.calls[c].pc = "searching"
    /\ rag.calls[c].pending = << >>
    /\ rag' = [rag EXCEPT
           !.calls[c].pc = "returned",
           !.calls[c].cache = rag.projectContextCache,
           !.calls[c].returned = aggregateContext(rag.projectContextCache)]
    /\ UNCHANGED ragFrame

\* lines 31-34: readdir of the workspace folder rejects, the catch block
\* returns ''
SearchFails(c) ==
    /\ rag.calls[c].pc = "searching"
    /\ rag.calls[c].read = << >>
    /\ rag.calls[c].pending = filesToRead(rag.workspace, rag.calls[c].language)
    /\ rag' = [rag EXCEPT
           !.calls[c].pc = "returned",
           !.calls[c].failed = TRUE,
           !.calls[c].cache = rag.projectContextCache]
    /\ UNCHANGED ragFrame

NextRag ==
    \E c \in RagCalls :
        \/ ExtractProjectContext(c)
        \/ ReadFile(c)
        \/ ReadFileFails(c)
        \/ ReturnContext(c)
        \/ SearchFails(c)

SpecRag ==
    InitRag /\ [][NextRag]_vars

RECURSIVE CacheOf(_, _)
\* the cache a search fills that reads the files of the sequence read (the
\* first k of them) and nothing else
CacheOf(read, k) ==
    IF k = 0 THEN << >>
    ELSE processFileContent(CacheOf(read, k - 1), RagFiles[read[k]].path,
                            RagFiles[read[k]].content)

\* the calls that have returned what they aggregated
Aggregated ==
    {c \in RagCalls : rag.calls[c].pc = "returned" /\ ~rag.calls[c].failed
                        /\ rag.hasFolder}

\* C28 (as claimed; the code violates it): what a call returns is the
\* aggregate of the contexts of the files its own search has read, all of
\* them and no other, whatever another call on the same RAGSystem does in
\* between.
C28_ContextOfOwnSearch ==
    \A c \in Aggregated :
        rag.calls[c].returned
            = aggregateContext(CacheOf(rag.calls[c].read,
                                       Len(rag.calls[c].read)))

RECURSIVE ReferencedContexts(_, _)
\* the contexts of the first k entries of a cache, each with its reference,
\* one after the other
ReferencedContexts(cache, k) ==
    IF k = 0 THEN << >>
    ELSE ReferencedContexts(cache, k - 1)
             \o contextWithReference(cache[k][1], cache[k][2])

\* the numbers k of entries after which the aggregation of a cache stops:
\* the first k fit in the limit and entry k + 1, if there is one, would
\* exceed it
Stops(cache) ==
    {k \in 0..Len(cache) :
        /\ Len(ReferencedContexts(cache, k)) <= maxContextLength
        /\ k < Len(cache)
               => Len(ReferencedContexts(cache, k + 1)) > maxContextLength}

\* C29 (as claimed; the code violates it): what a call returns has 2000
\* characters at most and is the referenced contexts of the first k cached
\* files, one after the other in the order of the cache, k being where the
\* next file would exceed the limit.
C29_AggregateIsPrefix ==
    \A c \in Aggregated :
        /\ Len(rag.calls[c].returned) <= maxContextLength
        /\ \E k \in Stops(rag.calls[c].cache) :
               rag.calls[c].returned
                   = ReferencedContexts(rag.calls[c].cache, k)

\* text is whole without the blanks and line breaks at its two ends
IsTrimOf(text, whole) ==
    /\ Len(text) <= Len(whole)
    /\ \E lead \in 0..(Len(whole) - Len(text)) :
           /\ \A i \in 1..lead : whole[i] \in Space
           /\ \A i \in (lead + Len(text) + 1)..Len(whole) : whole[i] \in Space
           /\ text = SubSeq(whole, lead + 1, lead + Len(text))
    /\ text # << >> => text[1] \notin Space /\ text[Len(text)] \notin Space

\* C29 (as amended): what a call returns has 2000 characters at most and is
\* the referenced contexts of the first k cached files, one after the other
\* in the order of the cache, with the blanks and line breaks at both ends
\* taken off, k being the first number of files after which the next file
\* would exceed the limit: no later file is taken even if it would fit.
C29_AggregateIsTrimmedPrefix ==
    \A c \in Aggregated :
        /\ Len(rag.calls[c].returned) <= maxContextLength
        /\ Stops(rag.calls[c].cache) # {}
        /\ IsTrimOf(rag.calls[c].returned,
                    ReferencedContexts(rag.calls[c].cache,
                                       Least(Stops(rag.calls[c].cache))))

\* a call that returned one file of a cache of three: the second did not
\* fit, the third would have
C29_Witness ==
    \E c \in Aggregated :
        LET cache == rag.calls[c].cache
        IN  /\ Len(cache) = 3
            /\ Least(Stops(cache)) = 1
            /\ Len(ReferencedContexts(cache, 1)
                       \o contextWithReference(cache[3][1], cache[3][2]))
                   <= maxContextLength
            /\ rag.calls[c].returned # << >>

(***************************************************************************)
(* DocumentationProvider (part_003): the formatting of the text the        *)
(* service returns.                                                        *)
(***************************************************************************)

\* `Adds two numbers.`
DocSummary ==
    <<"A", "d", "d", "s", " ", "t", "w", "o", " ", "n", "u", "m", "b", "e",
      "r", "s", ".">>

\* `@param a the first number`
DocParam ==
    <<"@", "p", "a", "r", "a", "m", " ", "a", " ", "t", "h", "e", " ", "f",
      "i", "r", "s", "t", " ", "n", "u", "m", "b", "e", "r">>

\* `@returns the sum`
DocReturns ==
    <<"@", "r", "e", "t", "u", "r", "n", "s", " ", "t", "h", "e", " ", "s",
      "u", "m">>

\* `/**`
DocOpening ==
    <<"/", "*", "*">>

\* ` */`
DocClosing ==
    <<" ", "*", "/">>

\* ` * Adds two numbers.`
DocStarred ==
    <<" ", "*", " ", "A", "d", "d", "s", " ", "t", "w", "o", " ", "n", "u",
      "m", "b", "e", "r", "s", ".">>

\* the lines a documentation text is made of
LinesOfDocumentation ==
    {DocSummary, DocParam, DocReturns, DocOpening, DocClosing, DocStarred,
     << >>}

\* the most lines of a documentation text
MaxDocLines ==
    3

\* the documentation texts the service returns: one to MaxDocLines lines,
\* the empty text left out
Documentations ==
    {Join(lines, <<"\n">>) :
        lines \in UNION {[1..n -> LinesOfDocumentation] : n \in 1..MaxDocLines}}
        \ {<< >>}

\* the languages of the functions documented
FormatLanguages ==
    {"javascript", "typescript", "python", "java", "csharp", "go"}

\* lines 146-159: index is 1-based here, so the first line is index 1 and
\* the last is Len(lines)
formatJSDocDocumentation(documentation) ==
    LET cleanedDoc == Trim(RemoveDocMarks(documentation, 1))
        lines == Split(cleanedDoc)
        formattedLines ==
            [index \in 1..Len(lines) |->
                IF index = 1 THEN <<"/", "*", "*", " ">> \o lines[index]
                ELSE IF index = Len(lines)
                THEN <<" ", "*", " ">> \o lines[index] \o <<" ", "*", "/">>
                ELSE <<" ", "*", " ">> \o lines[index]]
    IN  Join(formattedLines, <<"\n">>)

\* lines 166-169
formatPythonDocstring(documentation) ==
    <<"\"", "\"", "\"", "\n">> \o Trim(documentation)
        \o <<"\n", "\"", "\"", "\"">>

\* lines 176-189: the same statements as formatJSDocDocumentation
formatJavaDocDocumentation(documentation) ==
    LET cleanedDoc == Trim(RemoveDocMarks(documentation, 1))
        lines == Split(cleanedDoc)
        formattedLines ==
            [index \in 1..Len(lines) |->
                IF index = 1 THEN <<"/", "*", "*", " ">> \o lines[index]
                ELSE IF index = Len(lines)
                THEN <<" ", "*", " ">> \o lines[index] \o <<" ", "*", "/">>
                ELSE <<" ", "*", " ">> \o lines[index]]
    IN  Join(formattedLines, <<"\n">>)

\* lines 196-201
formatGenericDocumentation(documentation) ==
    LET lines == Split(documentation)
    IN  Join([k \in 1..Len(lines) |-> <<"/", "/", " ">> \o lines[k]],
             <<"\n">>)

\* lines 117-139
formatDocumentation(documentation, language) ==
    CASE language \in {"javascript", "typescript", "javascriptreact",
                       "typescriptreact"}
             -> formatJSDocDocumentation(documentation)
      [] language = "python" -> formatPythonDocstring(documentation)
      [] language \in {"java", "csharp"}
             -> formatJavaDocDocumentation(documentation)
      [] OTHER -> formatGenericDocumentation(documentation)

\* the provider is handed a text of the service and the language of the
\* function it documents
InitFormat ==
    /\ languageId = "javascript"
    /\ document = <<JsFunction>>
    /\ position = 0
    /\ called = -1
    /\ result = NoCall
    /\ earlier = NoCall
    /\ frame = Idle
    /\ command = NoCommand
    /\ service = NewOpenAIService
    /\ extractor = NoExtraction
    /\ rag = NewRAGSystem
    /\ \E documentation \in Documentations, language \in FormatLanguages :
           formatter = [pc |-> "idle",
                        language |-> language,
                        documentation |-> documentation]

formatFrame == <<document, languageId, position, called, result, earlier,
                 frame, command, service, extractor, rag>>

\* lines 55 and 84: the text of the service is formatted for the language
\* of the function
FormatDocumentation ==
    /\ formatter.pc = "idle"
    /\ formatter' = [pc |-> "formatted",
                     language |-> formatter.language,
                     documentation |-> formatter.documentation,
                     returned |-> formatDocumentation(formatter.documentation,
                                                      formatter.language)]
    /\ UNCHANGED formatFrame

NextFormat ==
    FormatDocumentation

SpecFormat ==
    InitFormat /\ [][NextFormat]_vars

\* the calls that went to formatJSDocDocumentation or to
\* formatJavaDocDocumentation
DocCommentFormatted ==
    /\ formatter.pc = "formatted"
    /\ formatter.language \in {"javascript", "typescript", "java", "csharp"}

\* C30 (as claimed; the code violates it): for every non-empty text, of one
\* line or more, what formatJSDocDocumentation (formatJavaDocDocumentation)
\* returns is a complete comment: its first line starts with the opening
\* mark of a doc comment, its last line ends with the closing mark, and
\* every other line starts with blank, star, blank.
C30_CompleteDocComment ==
    (DocCommentFormatted /\ formatter.documentation # << >>) =>
        LET lines == Split(formatter.returned)
        IN  /\ StartsWith(lines[1], <<"/", "*", "*">>)
            /\ EndsWith(lines[Len(lines)], <<"*", "/">>)
            /\ \A k \in 2..Len(lines) :
                   StartsWith(lines[k], <<" ", "*", " ">>)

=============================================================================
